---- MODULE Spec2Model ----
(***************************************************************************)
(* meme-alert-bot: market discovery ingress, admission gates, per-market   *)
(* subscriptions and swap handlers (index.ts), the Watchlist store, the    *)
(* trending poller with its dedup set, and the sliding trade window.       *)
(*                                                                         *)
(* USD amounts are in units of 1000 USD.                                   *)
(***************************************************************************)
EXTENDS Integers, Sequences, FiniteSets, TLC

VARIABLES
    store,          \* WatchlistStore.store: key -> entry ("absent" = no entry)
    subscriptions,  \* index.ts main(): Map subKey -> stop handle
    gate,           \* per key: position of its runGates() invocation
    gliq,           \* per key: the local `liq` result of runGates()
    probeErr,       \* per key: a probe of the running gate pipeline threw
    handlers,       \* swap callbacks delivered so far, in delivery order
    windows,        \* WindowsManager: key -> ids of recorded trades, in append order
    taxes,          \* TaxEstimator samples, by the status their swap's handler started in
    evals,          \* ids of the swaps whose alert evaluation started, in order
    fdvs,           \* FdvTracker samples, by the status their swap's handler started in
    alerts,         \* tgSend() calls, by the status their swap's handler started in
    now,            \* Date.now()
    dedup,          \* trending.ts DedupSet.m: key -> expiry (0 = no entry)
    polls,          \* pollChain() invocations suspended in `await fetchPairData`
    emitted,        \* per trending key: the times a handler was called with it
    win,            \* WindowsManager.m entry of one market: its SlidingWindow
    wq,             \* the aggregate query just answered on that window, and its result
    gateCall,       \* passSafetyGates(): the call just answered (arguments, checks run, result)
    alertCall,      \* evaluateAlerts() + the caller's tgSend: the call just answered
    taxCall,        \* recordTaxApprox(): the call just answered and the sample it pushed
    ensureCall,     \* ensure*Market() on a key the Watchlist already holds: what it did
    http,           \* getWithRetry(): the call in progress (attempts, waits, outcome)
    timer,          \* startTrendingWatcher(): the interval timer and the ticks it fired
    call            \* a probe or poll called on its own: arguments, steps taken, result

pipeVars == <<store, subscriptions, gate, gliq, probeErr, handlers, windows,
              taxes, evals, fdvs, alerts>>

trendVars == <<dedup, polls, emitted>>

winVars == <<win, wq>>

fnVars == <<gateCall, alertCall, taxCall, ensureCall, http, timer, call>>

vars == <<pipeVars, now, trendVars, winVars, fnVars>>

-----------------------------------------------------------------------------
(* Bounds                                                                  *)

\* STRATEGY.MAX_ACTIVE_MARKETS (env, README default 600), scaled to the pool set
MAX_ACTIVE_MARKETS == 2
\* swap logs delivered by the subscriptions in one run
MaxSwaps == 2
\* pollChain() invocations that can be suspended at the same time
MaxPolls == 2
\* entries in one trending response
MaxItems == 2
\* last clock value
MaxTime == 7
\* trades recorded into the window in one run
MaxEvents == 3
MaxBuys == 2
MaxFdv == 3
MaxTax == 3
MaxSweeps == 1
MaxSweepTime == 3
\* last clock value while candidates are re-delivered or swap handlers interleave
MaxDupTime == 2
\* ticks of the trending watcher in one run (the immediate one included)
MaxTicks == 2

(* Program constants (USD in thousands)                                    *)
MIN_LIQ_USD == 5
LP_LOW_LIQ == 3
LP_MEDIUM_LIQ == 8
\* trending.ts SOURCE_TTL = 5 * 60_000 ms, in clock ticks of 100 s
SOURCE_TTL == 3
\* dexScreener.ts axios timeout (with retries), in the same scale: below SOURCE_TTL
HTTP_TIMEOUT == 2
\* config.ts MAX_TAX_PCT, in percent
MAX_TAX_PCT == 20
\* config.ts STRATEGY (USD in thousands; the whale ratio in percent)
BUY_VOL_1M_USD == 15
BUY_TXS_1M == 8
VOLUME_MULTIPLIER == 5
FDV_MULTIPLIER == 3
\* fdv.ts: getMultiplier looks 3 minutes back, push keeps 15 minutes; one clock
\* tick is 3 minutes here
FDV_MINUTES == 1
FDV_KEEP == 5
\* taxEstimator.ts pushSample keepMs = 10 * 60_000, in clock ticks of 5 minutes
TAX_KEEP == 2
\* watchlist.ts activeTtlMs = 24 h, inactiveTtlMs = 1 h, in clock ticks of 1 h
\* with the 24 h scaled to 2
ACTIVE_TTL == 2
INACTIVE_TTL == 1
WHALE_SINGLE_BUY_USD == 5
WHALE_LIQUIDITY_RATIO == 3
\* taxEstimator.ts: the floor 1e-12 under `expected` (amounts in units of 0.5e-12)
EXPECTED_FLOOR == 2
\* windows.ts, in clock ticks of one minute with the 10-minute span scaled to 3:
\* oneMinute span, keepMs, idleDropMs, prune cadence of record()
ONE_MINUTE == 1
KEEP_MS == 3
IDLE_DROP_MS == 5
PRUNE_EVERY == 2

\* config.ts STRATEGY: trending poll size (scaled from 50) and liquidity floor
TRENDING_TOP_K == 2
TRENDING_MIN_LIQ_USD == 30

\* dexscreener.ts getWithRetry(): tries, first delay (ms), jitter range (ms)
TRIES == 3
RETRY_DELAY == 400
JITTER == 150

\* no call recorded yet
NoCall == [fn |-> "none"]

\* getWithRetry() not called yet
NoRequest == [pc |-> "idle", i |-> 0, delay |-> 0, attempts |-> <<>>, waits |-> <<>>,
              result |-> {}]

-----------------------------------------------------------------------------
(* The on-chain pools the environment can announce.                        *)

\* code = whether the pair/pool address, token0 and token1 hold contract code
AllCode == [pair |-> TRUE, token0 |-> TRUE, token1 |-> TRUE]

Pools ==
    { [chain |-> "BSC", type |-> "v2", hex |-> "aa", base0 |-> FALSE, base1 |-> TRUE,
       code |-> AllCode],
      [chain |-> "ETH", type |-> "v3", hex |-> "bb", base0 |-> TRUE,  base1 |-> FALSE,
       code |-> AllCode],
      [chain |-> "ETH", type |-> "v2", hex |-> "cc", base0 |-> FALSE, base1 |-> FALSE,
       code |-> AllCode],
      [chain |-> "ETH", type |-> "v2", hex |-> "dd", base0 |-> TRUE,  base1 |-> FALSE,
       code |-> [pair |-> TRUE, token0 |-> TRUE, token1 |-> FALSE]] }

\* the pools whose three addresses hold code; "dd" pairs a base token with an
\* address that holds none (never deployed, or self-destructed since)
ListedPools == { p \in Pools : p.code = AllCode }

\* an address as delivered: hex digits plus whether letters come in upper case
RawAddr(p, upper) == [hex |-> p.hex, upper |-> upper]

\* index.ts normalize(): addr.toLowerCase()
normalize(addr) == [addr EXCEPT !.upper = FALSE]

\* watchlist.ts marketKey(): `${chain}:${type}:${address.toLowerCase()}`
marketKey(chain, type, address) == <<chain, type, normalize(address)>>

Keys == { marketKey(p.chain, p.type, RawAddr(p, FALSE)) : p \in Pools }

PoolOf(key) == CHOOSE p \in Pools : marketKey(p.chain, p.type, RawAddr(p, FALSE)) = key

\* USD liquidity figures a probe can report (0 = missing / not positive)
LiqVals == {0, 2, 6, 9}

\* what the aggregator's pair lookup gives: liquidity.usd, or the request throws
PairReplies == {[kind |-> "ok", usd |-> v] : v \in LiqVals} \cup {[kind |-> "err", usd |-> 0]}

\* what the reserves path gives: 2 x base-side reserve in USD, a revert, or no base quote
ReserveReplies == PairReplies \cup {[kind |-> "nousd", usd |-> 0]}

Absent == [status |-> "absent", reason |-> "", liquidityUsd |-> {}, lastMintUsd |-> {},
           firstSeen |-> 0, lastUpdated |-> 0]

-----------------------------------------------------------------------------
(* WatchlistStore                                                          *)

has(key) == store[key].status # "absent"

enqueueNew_overwrite(st, key) ==
    [st EXCEPT ![key] =
        [status |-> "pending", reason |-> "", liquidityUsd |-> {}, lastMintUsd |-> {},
         firstSeen |-> now, lastUpdated |-> now]]

\* enqueueNew(): existing entry is returned untouched, else a pending entry is stored
enqueueNew(st, key) ==
    IF st[key].status # "absent" THEN st
    ELSE [st EXCEPT ![key] =
            [status |-> "pending", reason |-> "", liquidityUsd |-> {}, lastMintUsd |-> {},
             firstSeen |-> now, lastUpdated |-> now]]

\* activate(key, {liquidityUsd}): e.meta = {...e.meta, ...patch}
activate(st, key, usd) ==
    IF st[key].status = "absent" THEN st
    ELSE [st EXCEPT ![key].status = "active",
                    ![key].lastUpdated = now,
                    ![key].liquidityUsd = IF usd = {} THEN @ ELSE usd]

reject(st, key, reason) ==
    IF st[key].status = "absent" THEN st
    ELSE [st EXCEPT ![key].status = "rejected", ![key].reason = reason,
                    ![key].lastUpdated = now]

patchMeta_replacing(st, key, mintUsd) ==
    IF st[key].status = "absent" THEN st
    ELSE [st EXCEPT ![key].lastMintUsd = {mintUsd}, ![key].liquidityUsd = {},
                    ![key].lastUpdated = now]

patchMeta(st, key, mintUsd) ==
    IF st[key].status = "absent" THEN st
    ELSE [st EXCEPT ![key].lastMintUsd = {mintUsd}, ![key].lastUpdated = now]

-----------------------------------------------------------------------------
(* Safety probes                                                           *)

\* hasMinLiquidityV2: reserves path when a side is a base token with a USD quote
\* (r = "err": getReserves/decimals reverted; "nousd": no base quote), else the
\* aggregator's liquidity.usd (d = "err": HTTP failure).
hasMinLiquidityV2(p, r, d) ==
    IF (p.base0 \/ p.base1) /\ r.kind = "ok"
    THEN [ok |-> r.usd >= MIN_LIQ_USD, usd |-> {r.usd}, err |-> FALSE]
    ELSE IF d.kind = "ok" /\ d.usd > 0
         THEN [ok |-> d.usd >= MIN_LIQ_USD, usd |-> {d.usd}, err |-> (r.kind = "err")]
         ELSE [ok |-> FALSE, usd |-> {}, err |-> (r.kind = "err" \/ d.kind = "err")]

\* hasMinLiquidityV3: aggregator only
hasMinLiquidityV3(p, d) ==
    IF d.kind = "ok" /\ d.usd > 0
    THEN [ok |-> d.usd >= MIN_LIQ_USD, usd |-> {d.usd}, err |-> FALSE]
    ELSE [ok |-> FALSE, usd |-> {}, err |-> (d.kind = "err")]

\* checkSellabilityV2(chain, client, token0): q = what the route enumeration gives
checkSellabilityV2(p, q) ==
    IF p.base0 THEN [ok |-> TRUE, note |-> "token is base asset", err |-> FALSE]
    ELSE IF q = "route" THEN [ok |-> TRUE, note |-> "V2 static ok", err |-> FALSE]
    ELSE IF q = "noroute"
         THEN [ok |-> FALSE, note |-> "no static route found (V2)", err |-> FALSE]
         ELSE [ok |-> FALSE, note |-> "V2 check error", err |-> TRUE]

\* checkSellabilityV3
checkSellabilityV3(p, q) ==
    IF ~p.base0 /\ ~p.base1
    THEN [ok |-> FALSE, note |-> "no recognized base token in pool", err |-> FALSE]
    ELSE IF q = "route" THEN [ok |-> TRUE, note |-> "v3 quoter ok", err |-> FALSE]
    ELSE IF q = "noroute"
         THEN [ok |-> FALSE, note |-> "v3 quoter no positive quote", err |-> FALSE]
         ELSE [ok |-> FALSE, note |-> "v3 check error", err |-> TRUE]

\* lpRiskScore: d = aggregator liquidity.usd, or "err" when fetchPairData throws
\* (the catch block is empty: the score is left as it is)
lpRiskScore(p, d) ==
    LET baseScore == IF ~(p.base0 \/ p.base1) THEN 2 ELSE 0
        liqScore  == IF d.kind = "err" THEN 0
                     ELSE IF d.usd > 0 /\ d.usd < LP_LOW_LIQ THEN 2
                     ELSE IF d.usd > 0 /\ d.usd < LP_MEDIUM_LIQ THEN 1
                     ELSE 0
    IN [score |-> baseScore + liqScore, err |-> (d.kind = "err")]

-----------------------------------------------------------------------------
(* index.ts main(): ingress                                                *)

hasCapacity_offByOne == Cardinality(subscriptions) <= MAX_ACTIVE_MARKETS

hasCapacity == Cardinality(subscriptions) < MAX_ACTIVE_MARKETS

ensureMarket_noGatesWhenFull(p, upper) ==
    LET key == marketKey(p.chain, p.type, RawAddr(p, upper))
        isNew == ~has(key)
    IN /\ store' = IF isNew THEN enqueueNew(store, key) ELSE store
       /\ gate' = IF isNew /\ hasCapacity THEN [gate EXCEPT ![key] = "liq"] ELSE gate
       /\ probeErr' = IF isNew THEN [probeErr EXCEPT ![key] = FALSE] ELSE probeErr
       /\ subscriptions' =
            IF key \in subscriptions THEN subscriptions
            ELSE IF ~hasCapacity THEN subscriptions
            ELSE subscriptions \cup {key}
       /\ UNCHANGED <<gliq, handlers, windows, taxes, evals, fdvs, alerts, now, trendVars, winVars, fnVars>>

ensureBody_gatesAgain(p, upper) ==
    LET key == marketKey(p.chain, p.type, RawAddr(p, upper))
        isNew == ~has(key)
        again == isNew \/ store[key].status = "rejected"
    IN /\ store' = IF isNew THEN enqueueNew(store, key) ELSE store
       /\ gate' = IF again THEN [gate EXCEPT ![key] = "liq"] ELSE gate
       /\ probeErr' = IF again THEN [probeErr EXCEPT ![key] = FALSE] ELSE probeErr
       /\ subscriptions' =
            IF key \in subscriptions THEN subscriptions
            ELSE IF ~hasCapacity THEN subscriptions
            ELSE subscriptions \cup {key}
       /\ UNCHANGED <<gliq, handlers, windows, taxes, evals, fdvs, alerts>>

\* the common body of ensureV2Market / ensureV3Market: what it does to the pipeline
ensureBody(p, upper) ==
    LET key == marketKey(p.chain, p.type, RawAddr(p, upper))
        isNew == ~has(key)
    IN /\ store' = IF isNew THEN enqueueNew(store, key) ELSE store
       /\ gate' = IF isNew THEN [gate EXCEPT ![key] = "liq"] ELSE gate
       /\ probeErr' = IF isNew THEN [probeErr EXCEPT ![key] = FALSE] ELSE probeErr
       /\ subscriptions' =
            IF key \in subscriptions THEN subscriptions
            ELSE IF ~hasCapacity THEN subscriptions
            ELSE subscriptions \cup {key}
       /\ UNCHANGED <<gliq, handlers, windows, taxes, evals, fdvs, alerts>>

ensureMarket(p, upper) ==
    ensureBody(p, upper) /\ UNCHANGED <<now, trendVars, winVars, fnVars>>

\* ensure*Market on a candidate whose key the Watchlist already holds; the call
\* record keeps the entry before and after, what enqueueNew would return for the
\* key, and the position of the key's gate run before and after
EnsureKnown(p, upper) ==
    LET key == marketKey(p.chain, p.type, RawAddr(p, upper))
    IN /\ ensureCall = NoCall
       /\ has(key)
       /\ ensureBody(p, upper)
       /\ ensureCall' = [fn |-> "ensureMarket", key |-> key, t |-> now,
                         before |-> store[key], after |-> store'[key],
                         returned |-> enqueueNew(store, key)[key],
                         gateBefore |-> gate[key], gateAfter |-> gate'[key]]
       /\ UNCHANGED <<now, trendVars, winVars, gateCall, alertCall, taxCall, http, timer, call>>

ensureV2Market(p, upper) == p.type = "v2" /\ ensureMarket(p, upper)

ensureV3Market(p, upper) == p.type = "v3" /\ ensureMarket(p, upper)

-----------------------------------------------------------------------------
(* runGates(): one action per await                                        *)

GateLiquidity(key, r, d) ==
    /\ gate[key] = "liq"
    /\ LET p == PoolOf(key)
           liq == IF p.type = "v2" THEN hasMinLiquidityV2(p, r, d)
                                   ELSE hasMinLiquidityV3(p, d)
       IN /\ probeErr' = [probeErr EXCEPT ![key] = @ \/ liq.err]
          /\ IF ~liq.ok
             THEN /\ store' = reject(store, key, "minLiquidity fail")
                  /\ gate' = [gate EXCEPT ![key] = "done"]
                  /\ gliq' = gliq
             ELSE /\ store' = store
                  /\ gate' = [gate EXCEPT ![key] = "sell"]
                  /\ gliq' = [gliq EXCEPT ![key] = liq.usd]
    /\ UNCHANGED <<subscriptions, handlers, windows, taxes, evals, fdvs, alerts, now, trendVars, winVars, fnVars>>

GateSellability(key, q) ==
    /\ gate[key] = "sell"
    /\ LET p == PoolOf(key)
           sell == IF p.type = "v2" THEN checkSellabilityV2(p, q)
                                    ELSE checkSellabilityV3(p, q)
       IN /\ probeErr' = [probeErr EXCEPT ![key] = @ \/ sell.err]
          /\ IF ~sell.ok
             THEN /\ store' = reject(store, key,
                                     IF p.type = "v2" THEN "sellability fail"
                                                      ELSE "sellability v3 fail")
                  /\ gate' = [gate EXCEPT ![key] = "done"]
                  /\ gliq' = [gliq EXCEPT ![key] = {}]
             ELSE /\ store' = store
                  /\ gate' = [gate EXCEPT ![key] = "lp"]
                  /\ gliq' = gliq
    /\ UNCHANGED <<subscriptions, handlers, windows, taxes, evals, fdvs, alerts, now, trendVars, winVars, fnVars>>

GateLpRisk_highRiskReturns(key, d) ==
    /\ gate[key] = "lp"
    /\ LET risk == lpRiskScore(PoolOf(key), d)
       IN /\ probeErr' = [probeErr EXCEPT ![key] = @ \/ risk.err]
          /\ IF risk.score >= 2
             THEN /\ store' = store
                  /\ gate' = [gate EXCEPT ![key] = "done"]
             ELSE /\ store' = activate(store, key, gliq[key])
                  /\ gate' = [gate EXCEPT ![key] = "notify"]
    /\ gliq' = [gliq EXCEPT ![key] = {}]
    /\ UNCHANGED <<subscriptions, handlers, windows, taxes, evals, fdvs, alerts, now, trendVars, winVars, fnVars>>

\* lpRiskScore resolved; on a pass the entry is activated and tgSend() is awaited
GateLpRisk(key, d) ==
    /\ gate[key] = "lp"
    /\ LET risk == lpRiskScore(PoolOf(key), d)
       IN /\ probeErr' = [probeErr EXCEPT ![key] = @ \/ risk.err]
          /\ IF risk.score >= 2
             THEN /\ store' = reject(store, key, "lpRisk high")
                  /\ gate' = [gate EXCEPT ![key] = "done"]
             ELSE /\ store' = activate(store, key, gliq[key])
                  /\ gate' = [gate EXCEPT ![key] = "notify"]
    /\ gliq' = [gliq EXCEPT ![key] = {}]
    /\ UNCHANGED <<subscriptions, handlers, windows, taxes, evals, fdvs, alerts, now, trendVars, winVars, fnVars>>

\* `await tgSend(...)` settles: a rejection lands in the catch block of runGates
GateNotified(key, sent) ==
    /\ gate[key] = "notify"
    /\ gate' = [gate EXCEPT ![key] = "done"]
    /\ store' = IF sent THEN store ELSE reject(store, key, "gates error")
    /\ UNCHANGED <<subscriptions, gliq, probeErr, handlers, windows, taxes,
                   evals, fdvs, alerts, now, trendVars, winVars, fnVars>>

\* onV2Mint -> estimateMintUsdV2 -> onV2MintRecord: patchMeta when a USD value exists
OnV2Mint(key, usd) ==
    /\ key \in subscriptions
    /\ PoolOf(key).type = "v2"
    /\ store' = IF usd = 0 THEN store ELSE patchMeta(store, key, usd)
    /\ UNCHANGED <<subscriptions, gate, gliq, probeErr, handlers, windows, taxes,
                   evals, fdvs, alerts, now, trendVars, winVars, fnVars>>

-----------------------------------------------------------------------------
(* rules/gates.ts passSafetyGates() and safety/bytecode.ts                 *)

\* what client.getBytecode gives for an address: code, "0x"/nothing, or it throws
CodeReplies == {"code", "empty", "err"}

\* hasOnchainCode(): !!bytecode && bytecode !== "0x"; an error counts as no code
hasOnchainCode(reply) == reply = "code"

\* getAvgTaxApprox() results: {} = no sample of that side, else the average in percent
TaxAvgs == {{}, {10}, {30}}

Over_farAbove(avg, max) == \E v \in avg : v > 2 * max

Over(avg, max) == \E v \in avg : v > max

\* passSafetyGates(): cr = the three getBytecode replies, r/d = reserves and
\* aggregator replies of the liquidity probe, q = sellability probe, d2 =
\* aggregator reply of lpRiskScore, tax = stored averages.  `verdicts` lists the
\* checks in the order they were evaluated, with their outcome.
passSafetyGates(p, cr, r, d, q, d2, tax) ==
    LET addrHasCode == hasOnchainCode(cr.pair)
        tokensHaveCode == hasOnchainCode(cr.token0) /\ hasOnchainCode(cr.token1)
        codeReasons == (IF addrHasCode THEN <<>> ELSE <<"bytecode">>)
                         \o (IF tokensHaveCode THEN <<>> ELSE <<"bytecode">>)
        liq == IF p.type = "v2" THEN hasMinLiquidityV2(p, r, d)
                                ELSE hasMinLiquidityV3(p, d)
        \* V2 sells token1 when only token0 is a base token, else token0
        sell == IF p.type = "v2"
                THEN checkSellabilityV2([p EXCEPT !.base0 = p.base0 /\ p.base1], q)
                ELSE checkSellabilityV3(p, q)
        risk == lpRiskScore(p, d2)
        taxFail == Over(tax.sellTax, MAX_TAX_PCT) \/ Over(tax.buyTax, MAX_TAX_PCT)
        taxReasons == (IF Over(tax.sellTax, MAX_TAX_PCT) THEN <<"tax">> ELSE <<>>)
                        \o (IF Over(tax.buyTax, MAX_TAX_PCT) THEN <<"tax">> ELSE <<>>)
        ok1 == liq.ok
        ok2 == ok1 /\ sell.ok
        ok3 == ok2 /\ risk.score < 2
        ok4 == ok3 /\ ~taxFail
        reasons == (IF ok1 THEN <<>> ELSE <<"minLiquidity">>)
                     \o (IF ok1 /\ ~sell.ok THEN <<"sellability">> ELSE <<>>)
                     \o (IF ok2 THEN <<"lpRisk">> ELSE <<>>)
                     \o (IF ok2 /\ risk.score >= 2 THEN <<"lpRisk">> ELSE <<>>)
                     \o taxReasons
        verdicts == <<[check |-> "bytecode", pass |-> TRUE],
                      [check |-> "minLiquidity", pass |-> ok1]>>
                     \o (IF ok1 THEN <<[check |-> "sellability", pass |-> sell.ok]>>
                                 ELSE <<>>)
                     \o (IF ok2 THEN <<[check |-> "lpRisk", pass |-> risk.score < 2]>>
                                 ELSE <<>>)
                     \o <<[check |-> "tax", pass |-> ~taxFail]>>
    IN IF ~(addrHasCode /\ tokensHaveCode)
       THEN [fn |-> "passSafetyGates", pool |-> p.hex, taxAvg |-> tax, ok |-> FALSE,
             reasons |-> codeReasons,
             verdicts |-> <<[check |-> "bytecode", pass |-> FALSE]>>,
             liquidityUsd |-> {}]
       ELSE [fn |-> "passSafetyGates", pool |-> p.hex, taxAvg |-> tax, ok |-> ok4,
             reasons |-> IF ok4 THEN <<"ok">> ELSE reasons,
             verdicts |-> verdicts,
             liquidityUsd |-> liq.usd]

PassSafetyGates(p, cr, r, d, q, d2, tax) ==
    /\ gateCall = NoCall
    /\ gateCall' = passSafetyGates(p, cr, r, d, q, d2, tax)
    /\ UNCHANGED <<pipeVars, now, trendVars, winVars, alertCall, taxCall, ensureCall, http, timer, call>>

-----------------------------------------------------------------------------
(* Swap callbacks installed by ensureV2Market / ensureV3Market             *)

\* target side: the side that is not a base token (token0 when both or neither)
targetOf(p) == IF p.base1 THEN "token0" ELSE IF p.base0 THEN "token1" ELSE "token0"

otherIsBase(p) == IF targetOf(p) = "token0" THEN p.base1 ELSE p.base0

swapGuard_anyEntry(key) == store[key].status # "absent"

\* `if (!entry || entry.status !== "active") return;`
swapGuard(key) == store[key].status # "absent" /\ store[key].status = "active"

Running(i) == i \in 1..Len(handlers) /\ handlers[i].pc # "done"

\* onLogs -> handlers.onV2Swap / onV3Swap, up to the first await of the callback
SwapDelivered(key) ==
    /\ key \in subscriptions
    /\ Len(handlers) < MaxSwaps
    /\ handlers' = Append(handlers,
            [key |-> key, st |-> store[key].status,
             pc |-> IF swapGuard(key) THEN "price" ELSE "done"])
    /\ UNCHANGED <<store, subscriptions, gate, gliq, probeErr, windows, taxes,
                   evals, fdvs, alerts, now, trendVars, winVars, fnVars>>

\* onV2SwapToWindows / onV3SwapToWindows resolve: the trade is recorded when a
\* finite positive USD value was found
SwapToWindows(i, priced) ==
    /\ Running(i) /\ handlers[i].pc = "price"
    /\ LET key == handlers[i].key
           p == PoolOf(key)
       IN /\ windows' = IF priced THEN [windows EXCEPT ![key] = Append(@, i)]
                                  ELSE windows
          /\ handlers' = [handlers EXCEPT ![i].pc =
                            IF p.type = "v2" /\ otherIsBase(p) THEN "tax" ELSE "eval"]
    /\ UNCHANGED <<store, subscriptions, gate, gliq, probeErr, taxes, evals,
                   fdvs, alerts, now, trendVars, winVars, fnVars>>

\* V2 only: recordTaxApprox resolves (a sample is pushed when the amounts fit a
\* direction and a mid price exists)
SwapTax(i, sampled) ==
    /\ Running(i) /\ handlers[i].pc = "tax"
    /\ taxes' = IF sampled THEN taxes \cup {handlers[i].st} ELSE taxes
    /\ handlers' = [handlers EXCEPT ![i].pc = "eval"]
    /\ UNCHANGED <<store, subscriptions, gate, gliq, probeErr, windows, evals,
                   fdvs, alerts, now, trendVars, winVars, fnVars>>

\* the keys of the `samples` map of taxEstimator.ts that hold a sample
sampledKeys == IF call.fn = "samples" THEN call.keys ELSE {}

\* recordTaxApprox resolves in the V2 swap handler, the key of the series it
\* pushed to kept
SwapTaxSampled(i, sampled) ==
    /\ Running(i) /\ handlers[i].pc = "tax"
    /\ taxes' = IF sampled THEN taxes \cup {handlers[i].st} ELSE taxes
    /\ call' = IF sampled
               THEN [fn |-> "samples", keys |-> sampledKeys \cup {handlers[i].key}]
               ELSE call
    /\ handlers' = [handlers EXCEPT ![i].pc = "eval"]
    /\ UNCHANGED <<store, subscriptions, gate, gliq, probeErr, windows, evals,
                   fdvs, alerts, now, trendVars, winVars, gateCall, alertCall, taxCall,
                   ensureCall, http, timer>>

\* evaluateAlerts starts: the window queries run, then computeFdvNow is awaited
SwapEvaluate(i) ==
    /\ Running(i) /\ handlers[i].pc = "eval"
    /\ evals' = Append(evals, i)
    /\ handlers' = [handlers EXCEPT ![i].pc = "fdv"]
    /\ UNCHANGED <<store, subscriptions, gate, gliq, probeErr, windows, taxes,
                   fdvs, alerts, now, trendVars, winVars, fnVars>>

\* computeFdvNow resolves: FDV sample pushed, level decided, tgSend when not none
SwapVerdict(i, fdvKnown, level) ==
    /\ Running(i) /\ handlers[i].pc = "fdv"
    /\ fdvs' = IF fdvKnown THEN fdvs \cup {handlers[i].st} ELSE fdvs
    /\ alerts' = IF level # "none" THEN alerts \cup {handlers[i].st} ELSE alerts
    /\ handlers' = [handlers EXCEPT ![i].pc = "done"]
    /\ UNCHANGED <<store, subscriptions, gate, gliq, probeErr, windows, taxes, evals, now, trendVars, winVars, fnVars>>

-----------------------------------------------------------------------------
(* pipeline/trending.ts                                                    *)

Chains == {"BSC", "ETH"}

\* entries of a chain's trending response: pair address, inferType(dexId),
\* whether the entry carries feeTier/fee, whether it passes the dex and address
\* filters (pre) and the liquidity and base-token filters (post)
TrendItems(chain) ==
    IF chain = "BSC"
    THEN { [hex |-> "aa", upper |-> FALSE, type |-> "v2", fee |-> FALSE, pre |-> TRUE, post |-> TRUE],
           [hex |-> "aa", upper |-> TRUE,  type |-> "v2", fee |-> FALSE, pre |-> TRUE, post |-> FALSE],
           [hex |-> "aa", upper |-> FALSE, type |-> "v2", fee |-> FALSE, pre |-> FALSE, post |-> TRUE] }
    ELSE { [hex |-> "bb", upper |-> FALSE, type |-> "v3", fee |-> FALSE, pre |-> TRUE, post |-> TRUE],
           [hex |-> "bb", upper |-> TRUE,  type |-> "v3", fee |-> TRUE,  pre |-> TRUE, post |-> TRUE] }

Responses(chain) == UNION { [1..n -> TrendItems(chain)] : n \in 0..MaxItems }

\* `${chain}:${normalizedPair}`
trendKey(chain, item) == <<chain, normalize([hex |-> item.hex, upper |-> item.upper])>>

TrendKeys == UNION { { trendKey(c, it) : it \in TrendItems(c) } : c \in Chains }

\* DedupSet.has(): an expired entry is deleted and reported as not seen
dedupHas(d, key, t) ==
    IF d[key] = 0 THEN [hit |-> FALSE, m |-> d]
    ELSE IF t > d[key] THEN [hit |-> FALSE, m |-> [d EXCEPT ![key] = 0]]
    ELSE [hit |-> TRUE, m |-> d]

\* DedupSet.add()
dedupAdd(d, key, t) == [d EXCEPT ![key] = t + SOURCE_TTL]

\* a handler is called with `key` at time t (the last two calls are kept)
emit(em, key, t) ==
    [em EXCEPT ![key] = IF Len(@) < 2 THEN Append(@, t) ELSE <<@[2], t>>]

\* the body of `for (const item of pairs)` from `items` on, run until the loop
\* ends or suspends in `await fetchPairData` (rest then starts with that item)
RECURSIVE pollLoop(_, _, _, _, _)
pollLoop(chain, items, d, em, t) ==
    IF items = <<>> THEN [m |-> d, em |-> em, rest |-> <<>>]
    ELSE LET item == Head(items)
             key == trendKey(chain, item)
             seen == dedupHas(d, key, t)
         IN IF ~item.pre THEN pollLoop(chain, Tail(items), d, em, t)
            ELSE IF seen.hit THEN pollLoop(chain, Tail(items), seen.m, em, t)
            ELSE IF ~item.post THEN pollLoop(chain, Tail(items), seen.m, em, t)
            ELSE IF item.type = "v3" /\ ~item.fee
                 THEN [m |-> dedupAdd(seen.m, key, t), em |-> em, rest |-> items]
                 ELSE pollLoop(chain, Tail(items), dedupAdd(seen.m, key, t),
                               emit(em, key, t), t)

Idle == [chain |-> "", rest |-> <<>>, since |-> 0]

\* pollChain(chain): fetchTrendingPairs resolved with `resp`
PollChain(slot, chain, resp) ==
    /\ polls[slot] = Idle
    /\ LET r == pollLoop(chain, resp, dedup, emitted, now)
       IN /\ dedup' = r.m
          /\ emitted' = r.em
          /\ polls' = IF r.rest = <<>> THEN polls
                      ELSE [polls EXCEPT ![slot] =
                              [chain |-> chain, rest |-> r.rest, since |-> now]]
    /\ UNCHANGED <<pipeVars, now, winVars, fnVars>>

\* `await fetchPairData` settles (either way): onV3Candidate is called, the loop goes on
PollFeeKnown(slot) ==
    /\ polls[slot] # Idle
    /\ LET chain == polls[slot].chain
           item == Head(polls[slot].rest)
           r == pollLoop(chain, Tail(polls[slot].rest), dedup,
                         emit(emitted, trendKey(chain, item), now), now)
       IN /\ dedup' = r.m
          /\ emitted' = r.em
          /\ polls' = [polls EXCEPT ![slot] =
                          IF r.rest = <<>> THEN Idle
                          ELSE [chain |-> chain, rest |-> r.rest, since |-> now]]
    /\ UNCHANGED <<pipeVars, now, winVars, fnVars>>

\* the clock advances; an aggregator request settles within HTTP_TIMEOUT
\* the value a query hands back lives only until the caller moves on
NoQuery == [kind |-> "none", t |-> 0, totalUsd |-> 0, buyUsd |-> 0, buyTxs |-> 0,
            used |-> {}]

Tick ==
    /\ now < MaxTime
    /\ \A slot \in 1..MaxPolls :
          polls[slot] = Idle \/ now - polls[slot].since < HTTP_TIMEOUT
    /\ now' = now + 1
    /\ wq' = NoQuery
    /\ UNCHANGED <<pipeVars, trendVars, win, fnVars>>

-----------------------------------------------------------------------------
(* state/windows.ts                                                        *)

\* trades fed to the window: a buy and a sell of different sizes, stamped with
\* the current time or with an earlier one (the optional ts of recordTrade)
Trades == {[usd |-> 1, isBuy |-> TRUE], [usd |-> 2, isBuy |-> FALSE]}

Lags == {0, 4}

NoWindow == [exists |-> FALSE, events |-> <<>>, lastActiveTs |-> 0]

\* SlidingWindow.prune(): drop from the head while events[0].ts < now - keepMs
RECURSIVE prune(_, _)
prune(events, t) ==
    IF events # <<>> /\ Head(events).ts < t - KEEP_MS THEN prune(Tail(events), t)
    ELSE events

record_atHead(w, ev) ==
    [w EXCEPT !.events = <<ev>> \o w.events, !.lastActiveTs = ev.ts]

\* SlidingWindow.record()
record(w, ev) ==
    LET pushed == Append(w.events, ev)
    IN [w EXCEPT !.events = IF Len(pushed) % PRUNE_EVERY = 0 THEN prune(pushed, ev.ts)
                                                             ELSE pushed,
                 !.lastActiveTs = ev.ts]

RECURSIVE walk_noBreak(_, _, _, _)
walk_noBreak(events, i, start, acc) ==
    IF i = 0 THEN acc
    ELSE LET e == events[i]
         IN walk_noBreak(events, i - 1, start,
                 [totalUsd |-> acc.totalUsd + e.usd,
                  buyUsd   |-> acc.buyUsd + (IF e.isBuy THEN e.usd ELSE 0),
                  buyTxs   |-> acc.buyTxs + (IF e.isBuy THEN 1 ELSE 0),
                  used     |-> acc.used \cup {e.ts}])

\* the loop of aggregateWithin: from the tail backwards, stop at the first
\* event older than `start` (used = the timestamps of the events added)
RECURSIVE walk(_, _, _, _)
walk(events, i, start, acc) ==
    IF i = 0 THEN acc
    ELSE LET e == events[i]
         IN IF e.ts < start THEN acc
            ELSE walk(events, i - 1, start,
                      [totalUsd |-> acc.totalUsd + e.usd,
                       buyUsd   |-> acc.buyUsd + (IF e.isBuy THEN e.usd ELSE 0),
                       buyTxs   |-> acc.buyTxs + (IF e.isBuy THEN 1 ELSE 0),
                       used     |-> acc.used \cup {e.ts}])

aggregateWithin(events, ms, t) ==
    walk(events, Len(events), t - ms,
         [totalUsd |-> 0, buyUsd |-> 0, buyTxs |-> 0, used |-> {}])

\* SlidingWindow.oneMinute / tenMinutesTotal / baselineAvgPerMin on the pruned list
oneMinute(events, t) == aggregateWithin(prune(events, t), ONE_MINUTE, t)

tenMinutesTotal(events, t) == aggregateWithin(prune(events, t), KEEP_MS, t)

baselineAvgPerMin_total10(events, t) ==
    [num |-> tenMinutesTotal(events, t).totalUsd, den |-> 9]

\* baseline = max(0, total10 - total1) / 9, kept as the numerator over 9
baselineAvgPerMin(events, t) ==
    LET total10 == tenMinutesTotal(events, t).totalUsd
        total1 == oneMinute(prune(events, t), t).totalUsd
    IN [num |-> IF total10 - total1 > 0 THEN total10 - total1 ELSE 0, den |-> 9]

\* SlidingWindow.lastActivityTs()
lastActivityTs(w) ==
    IF w.events # <<>> THEN w.events[Len(w.events)].ts ELSE w.lastActiveTs

\* WindowsManager.get(): the window is created on first use
getWindow(w, t) == IF w.exists THEN w
                   ELSE [exists |-> TRUE, events |-> <<>>, lastActiveTs |-> t]

pruneIdle_never(w, t) == w

\* WindowsManager.pruneIdle()
pruneIdle(w, t) == IF t - lastActivityTs(w) > IDLE_DROP_MS THEN NoWindow ELSE w

\* WindowsManager.recordTrade({usd, isBuy, ts?})
RecordTrade(ts, usd, isBuy) ==
    /\ Len(win.events) < MaxEvents
    /\ win' = pruneIdle(record(getWindow(win, now),
                               [ts |-> ts, usd |-> usd, isBuy |-> isBuy]), now)
    /\ wq' = NoQuery
    /\ UNCHANGED <<pipeVars, now, trendVars, fnVars>>

\* WindowsManager.oneMinute()
QueryOneMinute ==
    /\ LET w == getWindow(win, now)
           res == oneMinute(w.events, now)
       IN /\ wq' = [kind |-> "oneMinute", t |-> now, totalUsd |-> res.totalUsd,
                    buyUsd |-> res.buyUsd, buyTxs |-> res.buyTxs, used |-> res.used]
          /\ win' = pruneIdle([w EXCEPT !.events = prune(w.events, now)], now)
    /\ UNCHANGED <<pipeVars, now, trendVars, fnVars>>

\* WindowsManager.tenMinutesTotal()
QueryTenMinutes ==
    /\ LET w == getWindow(win, now)
           res == tenMinutesTotal(w.events, now)
       IN /\ wq' = [kind |-> "tenMinutesTotal", t |-> now, totalUsd |-> res.totalUsd,
                    buyUsd |-> 0, buyTxs |-> 0, used |-> res.used]
          /\ win' = pruneIdle([w EXCEPT !.events = prune(w.events, now)], now)
    /\ UNCHANGED <<pipeVars, now, trendVars, fnVars>>

\* WindowsManager.baselineAvgPerMin()
QueryBaseline ==
    /\ LET w == getWindow(win, now)
           res == baselineAvgPerMin(w.events, now)
       IN /\ wq' = [kind |-> "baselineAvgPerMin", t |-> now, totalUsd |-> res.num,
                    den |-> res.den, buyUsd |-> 0, buyTxs |-> 0,
                    used |-> tenMinutesTotal(w.events, now).used]
          /\ win' = pruneIdle([w EXCEPT !.events = prune(w.events, now)], now)
    /\ UNCHANGED <<pipeVars, now, trendVars, fnVars>>

-----------------------------------------------------------------------------
(* rules/alerts.ts evaluateAlerts() and its caller onV2Swap                *)

\* metrics/velocity.ts getVolumeMultiplier(): base = baselineAvgPerMin as num/den;
\* ratio = Infinity when base <= 0, else one / base
getVolumeMultiplier(one, base) ==
    IF base.num <= 0 THEN [inf |-> TRUE, num |-> 0, den |-> 1]
    ELSE [inf |-> FALSE, num |-> one * base.den, den |-> base.num]

b2n(flag) == IF flag THEN 1 ELSE 0

levelOf_strongAtFive(score, hitWhale, hitVel, hitFdv) ==
    IF score >= 5 /\ (hitWhale \/ (hitVel /\ hitFdv)) THEN "strong"
    ELSE IF score >= 3 THEN "normal"
    ELSE "none"

levelOf_noNormal(score, hitWhale, hitVel, hitFdv) ==
    IF score >= 6 /\ (hitWhale \/ (hitVel /\ hitFdv)) THEN "strong" ELSE "none"

\* let level = "none"; if (score >= 6 && (hitWhale || (hitVel && hitFdv))) ...
levelOf(score, hitWhale, hitVel, hitFdv) ==
    IF score >= 6 /\ (hitWhale \/ (hitVel /\ hitFdv)) THEN "strong"
    ELSE IF score >= 3 THEN "normal"
    ELSE "none"

\* vol = getOneMinuteBuys; vel = getVolumeMultiplier; fdvRatio = {} when undefined,
\* else {<<num, den>>}; the optional parameters are {} when undefined
evaluateAlerts(vol, vel, fdvRatio, lastTradeUsd, lastTradeIsBuy, lastTradeBuyerUsd, lastMintUsd, liquidityUsd) ==
    LET hitBuy == vol.buyUsd >= BUY_VOL_1M_USD /\ vol.buyTxs >= BUY_TXS_1M
        hitVel == vel.inf \/ vel.num >= VOLUME_MULTIPLIER * vel.den
        hitFdv == \E f \in fdvRatio : f[1] >= FDV_MULTIPLIER * f[2]
        \* whaleRatio = lastTradeUsd / liquidityUsd, when defined
        whaleRatio == IF lastTradeIsBuy
                      THEN { <<t, l>> : t \in lastTradeUsd, l \in {x \in liquidityUsd : x > 0} }
                      ELSE {}
        hitWhale == lastTradeIsBuy /\
                       ( \/ \E w \in whaleRatio : w[1] * 100 >= WHALE_LIQUIDITY_RATIO * w[2]
                         \/ \E u \in lastTradeBuyerUsd : u >= WHALE_SINGLE_BUY_USD )
        \* (lastMintUsd ?? 0) >= MIN_LIQ_USD * 1.2
        mint == \E m \in lastMintUsd : m * 10 >= MIN_LIQ_USD * 12
        s1 == IF hitBuy THEN 2 ELSE 0
        s2 == IF hitVel THEN s1 + 2 ELSE s1
        s3 == IF hitFdv THEN s2 + 2 ELSE s2
        s4 == IF hitWhale THEN s3 + 3 ELSE s3
        score == IF mint THEN s4 + 1 ELSE s4
    IN [level |-> levelOf(score, hitWhale, hitVel, hitFdv), score |-> score,
        flags |-> [hitBuy |-> hitBuy, hitVel |-> hitVel, hitFdv |-> hitFdv,
                   hitWhale |-> hitWhale, mint |-> mint]]

\* what pickSwap/priced swap hands over: no USD value, or usd and direction
SwapResults == {[priced |-> FALSE, usd |-> 0, isBuy |-> FALSE]} \cup
               {[priced |-> TRUE, usd |-> u, isBuy |-> b] : u \in {1, 4, 6}, b \in BOOLEAN}

\* onV2Swap: evaluateAlerts on the swap, then tgSend when the level is not "none"
EvaluateAlerts(vol, one, base, fdvRatio, swapResult, liquidityUsd, lastMintUsd) ==
    /\ alertCall = NoCall
    /\ LET res == evaluateAlerts(vol, getVolumeMultiplier(one, base), fdvRatio,
                                 IF swapResult.priced THEN {swapResult.usd} ELSE {},
                                 swapResult.priced /\ swapResult.isBuy,
                                 IF swapResult.priced /\ swapResult.isBuy
                                 THEN {swapResult.usd} ELSE {},
                                 lastMintUsd, liquidityUsd)
       IN alertCall' = [fn |-> "evaluateAlerts", vol |-> vol, one |-> one, base |-> base,
                        fdvRatio |-> fdvRatio, swap |-> swapResult,
                        liquidityUsd |-> liquidityUsd, lastMintUsd |-> lastMintUsd,
                        flags |-> res.flags, score |-> res.score, level |-> res.level,
                        sent |-> (res.level # "none")]
    /\ UNCHANGED <<pipeVars, now, trendVars, winVars, gateCall, taxCall, ensureCall, http, timer, call>>

-----------------------------------------------------------------------------
(* safety/taxEstimator.ts recordTaxApprox(); fractions are <<num, den>>    *)

\* price/reservesPrice.ts getV2RelativePrice(): undefined when a reserve is <= 0
getV2RelativePrice(R0, R1) ==
    IF R0 <= 0 \/ R1 <= 0 THEN {}
    ELSE {[p0in1 |-> <<R1, R0>>, p1in0 |-> <<R0, R1>>]}

\* Math.max(expected, 1e-12)
floorExpected(e) == IF e[1] >= EXPECTED_FLOOR * e[2] THEN e ELSE <<EXPECTED_FLOOR, 1>>

taxApprox_noLowerClamp(expected, obs) ==
    LET E == floorExpected(expected)
        raw == E[1] - obs * E[2]
    IN [num |-> IF raw > E[1] THEN E[1] ELSE raw, den |-> E[1]]

\* Math.max(0, Math.min(1, 1 - obs / Math.max(expected, 1e-12)))
taxApprox(expected, obs) ==
    LET E == floorExpected(expected)
        raw == E[1] - obs * E[2]
        capped == IF raw > E[1] THEN E[1] ELSE raw
    IN [num |-> IF capped < 0 THEN 0 ELSE capped, den |-> E[1]]

Directions == {"sellToken0", "sellToken1", "buyToken0", "buyToken1"}

\* the sample recordTaxApprox pushes, {} when it pushes none; tokenIn, baseOut and
\* baseIn are {} when undefined
recordTaxApprox(rel, direction, tokenIn, baseOut, baseIn) ==
    IF rel = {} THEN {}
    ELSE LET r == CHOOSE x \in rel : TRUE
             inv(f) == <<f[2], f[1]>>
             mid == CASE direction = "sellToken0" -> r.p1in0
                      [] direction = "sellToken1" -> r.p0in1
                      [] direction = "buyToken0"  -> inv(r.p1in0)
                      [] direction = "buyToken1"  -> inv(r.p0in1)
             sell == direction \in {"sellToken0", "sellToken1"}
         IN IF sell
            THEN { [kind |-> "sellTax", expected |-> <<t * mid[1], mid[2]>>, obs |-> o,
                    tax |-> taxApprox(<<t * mid[1], mid[2]>>, o)] :
                   t \in tokenIn, o \in baseOut }
            ELSE { [kind |-> "buyTax", expected |-> <<b * mid[1], mid[2]>>, obs |-> o,
                    tax |-> taxApprox(<<b * mid[1], mid[2]>>, o)] :
                   b \in baseIn, o \in tokenIn }

\* one call from the swap handler: `inAmt` goes in, `outAmt` comes out
RecordTaxApprox(R0, R1, direction, inAmt, outAmt) ==
    /\ taxCall = NoCall
    /\ LET sell == direction \in {"sellToken0", "sellToken1"}
           tokenIn == IF sell THEN inAmt ELSE outAmt
           baseOut == IF sell THEN outAmt ELSE {}
           baseIn  == IF sell THEN {} ELSE inAmt
       IN taxCall' = [fn |-> "recordTaxApprox", R0 |-> R0, R1 |-> R1,
                      direction |-> direction, inAmt |-> inAmt, outAmt |-> outAmt,
                      samples |-> recordTaxApprox(getV2RelativePrice(R0, R1), direction,
                                                  tokenIn, baseOut, baseIn)]
    /\ UNCHANGED <<pipeVars, now, trendVars, winVars, gateCall, alertCall, ensureCall, http, timer, call>>

-----------------------------------------------------------------------------
(* dexscreener.ts getWithRetry(): one action per await                     *)

\* what `ds.get(url)` settles with: data, an error response with a status, or an
\* error without a response (the 8 s axios timeout): response = {} then
Replies ==
    {[kind |-> "ok", response |-> {200}, data |-> d] : d \in {"d1", "d2"}} \cup
    {[kind |-> "status", response |-> {st}, data |-> ""] : st \in {403, 429, 500, 503, 404}} \cup
    {[kind |-> "timeout", response |-> {}, data |-> ""]}

\* err.response?.status ?? 0
statusOf(reply) == IF reply.response = {} THEN 0 ELSE CHOOSE st \in reply.response : TRUE

retriable_any(status) == TRUE

\* status === 403 || status === 429 || status >= 500
retriable(status) == status = 403 \/ status = 429 \/ status >= 500

\* getWithRetry(url): delay = 400, i = 0, first ds.get issued
HttpCall ==
    /\ http.pc = "idle"
    /\ http' = [http EXCEPT !.pc = "request", !.i = 0, !.delay = RETRY_DELAY]
    /\ UNCHANGED <<pipeVars, now, trendVars, winVars, gateCall, alertCall, taxCall,
                   ensureCall, timer, call>>

\* `await ds.get(url)` settles: return data, rethrow, or start the backoff timer
HttpReply(reply, jitter) ==
    /\ http.pc = "request"
    /\ LET tried == Append(http.attempts, reply)
       IN IF reply.kind = "ok"
          THEN http' = [http EXCEPT !.pc = "returned", !.attempts = tried,
                                    !.result = {reply.data}]
          ELSE IF ~retriable(statusOf(reply)) \/ http.i = TRIES - 1
               THEN http' = [http EXCEPT !.pc = "thrown", !.attempts = tried]
               ELSE http' = [http EXCEPT !.pc = "wait", !.attempts = tried,
                                         !.waits = Append(@, http.delay + jitter)]
    /\ UNCHANGED <<pipeVars, now, trendVars, winVars, gateCall, alertCall, taxCall,
                   ensureCall, timer, call>>

\* the backoff timer fires: delay *= 2, next iteration of the loop
HttpBackoffDone ==
    /\ http.pc = "wait"
    /\ http' = [http EXCEPT !.pc = "request", !.i = @ + 1, !.delay = @ * 2]
    /\ UNCHANGED <<pipeVars, now, trendVars, winVars, gateCall, alertCall, taxCall,
                   ensureCall, timer, call>>

-----------------------------------------------------------------------------
(* pipeline/trending.ts startTrendingWatcher(): tick() and the interval    *)

\* after startTrendingWatcher(): tick() was called once, both polls of tick 1
\* are under way, setInterval armed the timer
TimerInit ==
    [armed |-> TRUE, fired |-> 1,
     running |-> {[tick |-> 1, chain |-> c] : c \in Chains},
     log |-> {}, resolved |-> {}]

\* the interval fires: tick() starts pollChain("BSC") and pollChain("ETH")
TimerTick ==
    /\ timer.armed
    /\ timer.fired < MaxTicks
    /\ timer' = [timer EXCEPT !.fired = @ + 1,
                              !.running = @ \cup {[tick |-> timer.fired + 1, chain |-> c] :
                                                   c \in Chains}]
    /\ UNCHANGED <<pipeVars, now, trendVars, winVars, gateCall, alertCall, taxCall,
                   ensureCall, http, call>>

PollChainSettles_failureDisarms(t, chain, outcome) ==
    /\ [tick |-> t, chain |-> chain] \in timer.running
    /\ timer' = [timer EXCEPT !.running = @ \ {[tick |-> t, chain |-> chain]},
                              !.log = @ \cup {[tick |-> t, chain |-> chain,
                                               failed |-> (outcome = "throws")]},
                              !.armed = @ /\ outcome # "throws"]
    /\ UNCHANGED <<pipeVars, now, trendVars, winVars, gateCall, alertCall, taxCall,
                   ensureCall, http, call>>

\* pollChain(chain) of tick t settles: its try block ran through ("ok") or threw
\* ("throws": the catch logs "Trending poll failed"); the promise resolves
PollChainSettles(t, chain, outcome) ==
    /\ [tick |-> t, chain |-> chain] \in timer.running
    /\ timer' = [timer EXCEPT !.running = @ \ {[tick |-> t, chain |-> chain]},
                              !.log = @ \cup {[tick |-> t, chain |-> chain,
                                               failed |-> (outcome = "throws")]}]
    /\ UNCHANGED <<pipeVars, now, trendVars, winVars, gateCall, alertCall, taxCall,
                   ensureCall, http, call>>

\* `await Promise.all([...])` of tick t resolves once both polls have settled
TickResolves(t) ==
    /\ t \in 1..timer.fired
    /\ t \notin timer.resolved
    /\ \A c \in Chains : [tick |-> t, chain |-> c] \notin timer.running
    /\ timer' = [timer EXCEPT !.resolved = @ \cup {t}]
    /\ UNCHANGED <<pipeVars, now, trendVars, winVars, gateCall, alertCall, taxCall,
                   ensureCall, http, call>>

-----------------------------------------------------------------------------
(* pipeline/trending.ts pollChain() and dexscreener.ts fetchTrendingPairs() *)
(* as functions of the aggregator's replies                                *)

\* an address string: its hex digits, whether its letters are upper case, and
\* whether it has the shape 0x + 40 hex digits
TAddr(hex, upper, shape) == [hex |-> hex, upper |-> upper, shape |-> shape]

\* an entry of a reply; dexId is the set of words the id contains ({} = no id);
\* liq is Number(liquidity.usd ?? 0) ({} when not finite); base: a token is a base token
TEntry(dexId, pair, tokShape, liq, base) ==
    [dexId |-> dexId, pair |-> pair,
     token0 |-> TAddr("t0", TRUE, tokShape), token1 |-> TAddr("t1", FALSE, "ok"),
     liq |-> liq, base |-> base]

GoodEntries ==
    { TEntry({"uniswap"}, TAddr("p1", FALSE, "ok"), "ok", {50}, TRUE),
      TEntry({"uniswap", "v3"}, TAddr("p2", TRUE, "ok"), "ok", {50}, TRUE),
      TEntry({"pancakeswap"}, TAddr("p3", FALSE, "ok"), "ok", {30}, TRUE) }

TEntries ==
    GoodEntries \cup
    { TEntry({"pancakeswap", "uniswap", "v3"}, TAddr("p3", TRUE, "ok"), "ok", {50}, TRUE),
      TEntry({"sushiswap"}, TAddr("p4", FALSE, "ok"), "ok", {50}, TRUE),
      TEntry({}, TAddr("p4", FALSE, "ok"), "ok", {50}, TRUE),
      TEntry({"uniswap"}, TAddr("p4", FALSE, "bad"), "ok", {50}, TRUE),
      TEntry({"uniswap"}, TAddr("p4", FALSE, "ok"), "bad", {50}, TRUE),
      TEntry({"pancakeswap", "uniswap"}, TAddr("p4", FALSE, "ok"), "ok", {}, TRUE),
      TEntry({"pancakeswap", "uniswap"}, TAddr("p4", FALSE, "ok"), "ok", {10}, TRUE),
      TEntry({"pancakeswap", "uniswap"}, TAddr("p4", FALSE, "ok"), "ok", {50}, FALSE) }

SUPPORTED_DEX_IDS(chain) == IF chain = "BSC" THEN {"pancakeswap", "pcs"} ELSE {"uniswap"}

\* needles.some((needle) => id.includes(needle))
dexSupported(chain, dexId) == dexId \cap SUPPORTED_DEX_IDS(chain) # {}

inferType(dexId) == IF "v3" \in dexId THEN "v3" ELSE "v2"

looksLikeAddress(a) == a.shape = "ok"

basePaired_always(item) == TRUE

\* isBaseToken(chain, token0) || isBaseToken(chain, token1)
basePaired(item) == item.base

\* the loop of pollChain over `pairs`; seen = the keys the dedup set holds
RECURSIVE pollEntries(_, _, _, _, _)
pollEntries(chain, pairs, seen, out, added) ==
    IF pairs = <<>> THEN [emitted |-> out, added |-> added]
    ELSE LET item == Head(pairs)
             rest == Tail(pairs)
             key == <<chain, normalize(item.pair)>>
         IN IF ~dexSupported(chain, item.dexId) THEN pollEntries(chain, rest, seen, out, added)
            ELSE IF ~looksLikeAddress(item.pair) \/ ~looksLikeAddress(item.token0)
                    \/ ~looksLikeAddress(item.token1)
                 THEN pollEntries(chain, rest, seen, out, added)
            ELSE IF key \in seen THEN pollEntries(chain, rest, seen, out, added)
            ELSE IF item.liq = {} THEN pollEntries(chain, rest, seen, out, added)
            ELSE IF \E v \in item.liq : v < TRENDING_MIN_LIQ_USD
                 THEN pollEntries(chain, rest, seen, out, added)
            ELSE IF ~basePaired(item) THEN pollEntries(chain, rest, seen, out, added)
            ELSE pollEntries(chain, rest, seen \cup {key},
                             Append(out, [type |-> inferType(item.dexId),
                                          pair |-> normalize(item.pair),
                                          token0 |-> normalize(item.token0),
                                          token1 |-> normalize(item.token1),
                                          item |-> item]),
                             added \cup {key})

\* the fallback's "dedup and truncate" loop over the per-base buckets
RECURSIVE mergeBuckets(_, _, _, _)
mergeBuckets(buckets, seen, merged, limit) ==
    IF buckets = <<>> THEN merged
    ELSE LET p == Head(buckets)
             k == normalize(p.pair)
         IN IF k \in seen THEN mergeBuckets(Tail(buckets), seen, merged, limit)
            ELSE IF Len(merged) + 1 >= limit THEN Append(merged, p)
            ELSE mergeBuckets(Tail(buckets), seen \cup {k}, Append(merged, p), limit)

\* fetchTrendingPairs: the trending endpoint's reply as it comes, or, when that
\* request fails (primary.ok = FALSE), the merged per-base buckets
fetchTrendingPairs(primary, buckets, limit) ==
    IF primary.ok THEN primary.pairs ELSE mergeBuckets(buckets, {}, <<>>, limit)

\* one pollChain(chain) from fetch to the end of its loop
PollChainOnce(chain, primary, buckets, seen) ==
    /\ call = NoCall
    /\ LET res == fetchTrendingPairs(primary, buckets, TRENDING_TOP_K)
           r == pollEntries(chain, res, seen, <<>>, {})
       IN call' = [fn |-> "pollChain", chain |-> chain,
                   source |-> IF primary.ok THEN "trending" ELSE "fallback",
                   pairs |-> res, seen |-> seen, emitted |-> r.emitted, added |-> r.added]
    /\ UNCHANGED <<pipeVars, now, trendVars, winVars, gateCall, alertCall, taxCall,
                   ensureCall, http, timer>>

-----------------------------------------------------------------------------
(* metrics/volume.ts onV2SwapToWindows() / onV3SwapToWindows()             *)

\* a JavaScript number: NaN, Infinity, or a finite value v
NaN == [k |-> "nan", v |-> 0]
Infinity == [k |-> "inf", v |-> 0]
Num(v) == [k |-> "num", v |-> v]

\* fallbackPrice * deltaTarget, deltaTarget finite and >= 0
times(price, delta) ==
    IF price.k = "nan" THEN NaN
    ELSE IF price.k = "inf" THEN (IF delta = 0 THEN NaN ELSE Infinity)
    ELSE Num(price.v * delta)

validUsd_anyNumber(priceUsd) == priceUsd # {}

\* typeof priceUsd === "number" && Number.isFinite(priceUsd) && priceUsd > 0
validUsd(priceUsd) == \E p \in priceUsd : p.k = "num" /\ p.v > 0

\* no swap handler has run to its end yet; pending = handlers started and
\* suspended in their awaits
NoSwapCall == [fn |-> "onSwapToWindows", pending |-> 0, usdByBase |-> {},
               fallback |-> {}, result |-> {}]

\* a Swap log of the market arrives: its handler starts and suspends
SwapHandlerStarts ==
    /\ call.fn \in {"none", "onSwapToWindows"}
    /\ LET c == IF call = NoCall THEN NoSwapCall ELSE call
       IN /\ c.pending + Len(win.events) < MaxEvents
          /\ call' = [c EXCEPT !.pending = @ + 1]
    /\ UNCHANGED <<pipeVars, now, trendVars, winVars, gateCall, alertCall, taxCall,
                   ensureCall, http, timer>>

\* a suspended handler gets its prices and finishes: delta = the target token's
\* change for the trader; usdByBase = deltaToUsdIfBase's answer ({} = undefined);
\* fallbackPrice = fetchTokenUsdViaDexScreener's answer
OnSwapToWindows(delta, usdByBase, fallbackPrice) ==
    /\ call.fn = "onSwapToWindows"
    /\ call.pending > 0
    /\ LET isBuy == delta > 0
           deltaTarget == IF delta < 0 THEN 0 - delta ELSE delta
           fallback == { times(f, deltaTarget) : f \in fallbackPrice }
           priceUsd == IF usdByBase # {} THEN usdByBase ELSE fallback
       IN IF validUsd(priceUsd)
          THEN /\ win' = pruneIdle(record(getWindow(win, now),
                                          [ts |-> now,
                                           usd |-> CHOOSE p \in priceUsd : TRUE,
                                           isBuy |-> isBuy]), now)
               /\ call' = [call EXCEPT !.pending = @ - 1, !.usdByBase = usdByBase,
                                       !.fallback = fallback,
                                       !.result = {[usd |-> CHOOSE p \in priceUsd : TRUE,
                                                    isBuy |-> isBuy]}]
          ELSE /\ win' = win
               /\ call' = [call EXCEPT !.pending = @ - 1, !.usdByBase = usdByBase,
                                       !.fallback = fallback, !.result = {}]
    /\ wq' = NoQuery
    /\ UNCHANGED <<pipeVars, now, trendVars, gateCall, alertCall, taxCall,
                   ensureCall, http, timer>>

-----------------------------------------------------------------------------
(* runGates() from its first probe to its verdict, for one candidate       *)

\* what the router's static quotes give for each token of the pair
RouteReplies == {"route", "noroute", "err"}

\* `checkSellabilityV2(chain, client, token0)`: the token probed is token0
sellabilityV2(p, routes) == checkSellabilityV2(p, routes.token0)

\* r, d: replies to the liquidity probe; routes: static quotes per token;
\* d2: reply to the pair lookup of lpRiskScore.  `probed` lists the checks run.
runGates(p, r, d, routes, d2) ==
    LET liq == IF p.type = "v2" THEN hasMinLiquidityV2(p, r, d)
                                ELSE hasMinLiquidityV3(p, d)
        sell == IF p.type = "v2" THEN sellabilityV2(p, routes)
                ELSE checkSellabilityV3(p, IF p.base0 THEN routes.token1
                                                      ELSE routes.token0)
        risk == lpRiskScore(p, d2)
        in == [fn |-> "runGates", pool |-> p, routes |-> routes, lp |-> d2]
    IN IF ~liq.ok
       THEN in @@ [status |-> "rejected", reason |-> "minLiquidity fail",
                   probed |-> <<"liq">>, score |-> {}]
       ELSE IF ~sell.ok
       THEN in @@ [status |-> "rejected",
                   reason |-> IF p.type = "v2" THEN "sellability fail"
                                               ELSE "sellability v3 fail",
                   probed |-> <<"liq", "sell">>, score |-> {}]
       ELSE IF risk.score >= 2
       THEN in @@ [status |-> "rejected", reason |-> "lpRisk high",
                   probed |-> <<"liq", "sell", "lp">>, score |-> {risk.score}]
       ELSE in @@ [status |-> "active", reason |-> "",
                   probed |-> <<"liq", "sell", "lp">>, score |-> {risk.score}]

RunGatesOnce(p, r, d, routes, d2) ==
    /\ call = NoCall
    /\ call' = runGates(p, r, d, routes, d2)
    /\ UNCHANGED <<pipeVars, now, trendVars, winVars, gateCall, alertCall, taxCall,
                   ensureCall, http, timer>>

-----------------------------------------------------------------------------
(* safety/sellability.ts: checkSellabilityV2, path by path                 *)

\* pickCommonBases(chain): the chain's base tokens in priority order
pickCommonBases(chain) == IF chain = "BSC" THEN <<"WBNB", "USDT">> ELSE <<"WETH", "USDC">>

\* `for (const base of bases)`: [token, base]
oneHopPaths(token, bases) == [i \in 1..Len(bases) |-> <<token, bases[i]>>]

\* every [token, mid, dst] in loop order, the skipped ones included
allTwoHop(token, bases) ==
    LET n == Len(bases)
    IN [k \in 1..(n * n) |-> <<token, bases[((k - 1) \div n) + 1], bases[((k - 1) % n) + 1]>>]

skipped(path) == path[2] = path[1] \/ path[3] = path[2]

\* `for (const mid of bases) { if (mid == token) continue; for (const dst of bases) { if (dst === mid) continue;`
twoHopPaths(token, bases) == SelectSeq(allTwoHop(token, bases), LAMBDA path : ~skipped(path))

Range(f) == { f[i] : i \in DOMAIN f }

\* what router.getAmountsOut gives for a path: last amount > 0, last amount 0, revert
QuoteReplies == {"pos", "zero", "revert"}

RECURSIVE tryPaths_revertAborts(_, _, _)
tryPaths_revertAborts(paths, replies, tried) ==
    IF paths = <<>> THEN [path |-> <<>>, tried |-> tried]
    ELSE IF replies[Head(paths)] = "pos"
         THEN [path |-> Head(paths), tried |-> Append(tried, Head(paths))]
         ELSE IF replies[Head(paths)] = "revert"
              THEN [path |-> <<>>, tried |-> Append(tried, Head(paths))]
              ELSE tryPaths_revertAborts(Tail(paths), replies, Append(tried, Head(paths)))

\* the two loops: try { out = await getAmountsOut(...); if (last > 0n) return ok } catch { ignore }
RECURSIVE tryPaths(_, _, _)
tryPaths(paths, replies, tried) ==
    IF paths = <<>> THEN [path |-> <<>>, tried |-> tried]
    ELSE IF replies[Head(paths)] = "pos"
         THEN [path |-> Head(paths), tried |-> Append(tried, Head(paths))]
         ELSE tryPaths(Tail(paths), replies, Append(tried, Head(paths)))

\* usd: getBaseTokenUsd gives a quote, undefined, or throws; dec: getTokenDecimals
\* resolves or throws; replies: the router's answer for each path
checkSellabilityV2Paths(chain, token, isBase, usd, dec, replies) ==
    LET bases == pickCommonBases(chain)
        one == tryPaths(oneHopPaths(token, bases), replies, <<>>)
        two == tryPaths(twoHopPaths(token, bases), replies, one.tried)
    IN IF isBase THEN [ok |-> TRUE, note |-> "token is base asset", path |-> <<>>, tried |-> <<>>]
       ELSE IF usd = "throws" THEN [ok |-> FALSE, note |-> "V2 check error", path |-> <<>>, tried |-> <<>>]
       ELSE IF usd = "undefined" THEN [ok |-> FALSE, note |-> "no base USD quote", path |-> <<>>, tried |-> <<>>]
       ELSE IF dec = "throws" THEN [ok |-> FALSE, note |-> "V2 check error", path |-> <<>>, tried |-> <<>>]
       ELSE IF one.path # <<>> THEN [ok |-> TRUE, note |-> "V2 static ok: 1 hop", path |-> one.path, tried |-> one.tried]
       ELSE IF two.path # <<>> THEN [ok |-> TRUE, note |-> "V2 static ok: 2 hops", path |-> two.path, tried |-> two.tried]
       ELSE [ok |-> FALSE, note |-> "no static route found (V2)", path |-> <<>>, tried |-> two.tried]

CheckSellabilityV2(chain, token, isBase, usd, dec, replies) ==
    /\ call = NoCall
    /\ call' = [fn |-> "checkSellabilityV2", chain |-> chain, token |-> token,
                isBase |-> isBase, usd |-> usd, dec |-> dec, replies |-> replies,
                result |-> checkSellabilityV2Paths(chain, token, isBase, usd, dec, replies)]
    /\ UNCHANGED <<pipeVars, now, trendVars, winVars, gateCall, alertCall, taxCall,
                   ensureCall, http, timer>>

-----------------------------------------------------------------------------
(* safety/sellability.ts: checkSellabilityV3, call by call                 *)

\* what factory.getPool gives: the candidate pool (in the candidate's spelling
\* or in upper case), the zero address, another pool, or the read throws
PoolReplies == {"pool", "POOL", "zero", "other", "throws"}

verifyPool_anyPool(reply) ==
    IF reply = "throws" THEN [ok |-> FALSE, note |-> "factory.getPool error"]
    ELSE IF reply = "zero" THEN [ok |-> FALSE, note |-> "factory.getPool returned zero address"]
    ELSE [ok |-> TRUE, note |-> ""]

\* verifyPool(): compares onChainPool.toLowerCase() with expectedPool.toLowerCase()
verifyPool(reply) ==
    IF reply = "throws" THEN [ok |-> FALSE, note |-> "factory.getPool error"]
    ELSE IF reply = "zero" THEN [ok |-> FALSE, note |-> "factory.getPool returned zero address"]
    ELSE IF reply \notin {"pool", "POOL"}
         THEN [ok |-> FALSE, note |-> "fee tier mismatch or wrong pool address"]
         ELSE [ok |-> TRUE, note |-> ""]

\* [a, b] = token0 < token1 ? [token0, token1] : [token1, token0]
sortedTokens(token0, token1) == IF token0 < token1 THEN <<token0, token1>> ELSE <<token1, token0>>

\* calls: the reads made, in order (getPool with its arguments, decimals, the
\* three quoter probes, the aggregator's recent sells)
checkSellabilityV3Calls(token0, token1, is0Base, is1Base, reply, dec, quotes) ==
    LET getPool == [op |-> "getPool", args |-> sortedTokens(token0, token1)]
        poolCheck == verifyPool(reply)
        read(op) == [op |-> op, args |-> <<>>]
        probes == [n \in 1..3 |-> read("quote")]
        anyPositive == \E n \in 1..3 : quotes[n] = "pos"
    IN IF ~is0Base /\ ~is1Base
       THEN [ok |-> FALSE, note |-> "no recognized base token in pool", calls |-> <<>>]
       ELSE IF ~poolCheck.ok
       THEN [ok |-> FALSE, note |-> poolCheck.note, calls |-> <<getPool>>]
       ELSE IF is0Base /\ is1Base
       THEN [ok |-> TRUE, note |-> "both sides are base", calls |-> <<getPool, read("sells")>>]
       ELSE IF dec = "throws"
       THEN [ok |-> FALSE, note |-> "v3 check error", calls |-> <<getPool, read("decimals")>>]
       ELSE IF ~anyPositive
       THEN [ok |-> FALSE, note |-> "v3 quoter no positive quote",
             calls |-> <<getPool, read("decimals")>> \o probes]
       ELSE [ok |-> TRUE, note |-> "v3 quoter ok",
             calls |-> <<getPool, read("decimals")>> \o probes \o <<read("sells")>>]

CheckSellabilityV3(token0, token1, is0Base, is1Base, reply, dec, quotes) ==
    /\ call = NoCall
    /\ call' = [fn |-> "checkSellabilityV3", token0 |-> token0, token1 |-> token1,
                is0Base |-> is0Base, is1Base |-> is1Base, getPool |-> reply,
                dec |-> dec, quotes |-> quotes,
                result |-> checkSellabilityV3Calls(token0, token1, is0Base, is1Base,
                                                   reply, dec, quotes)]
    /\ UNCHANGED <<pipeVars, now, trendVars, winVars, gateCall, alertCall, taxCall,
                   ensureCall, http, timer>>

-----------------------------------------------------------------------------
(* price/reservesPrice.ts: deriveUsdFromRelative                           *)

\* rank0, rank1: place of the token in the base-token order (1 = first), 0 when
\* the token is no base token; usd0, usd1: what baseTokenUsdGetter gives ({} =
\* undefined); anchor: the side whose USD price the result is built on
deriveUsdFromRelative(rank0, rank1, usd0, usd1, rel) ==
    IF rank1 > 0 /\ usd1 # {}
    THEN [price0Usd |-> { rel.p0in1 * u : u \in usd1 }, price1Usd |-> usd1, anchor |-> "token1"]
    ELSE IF rank0 > 0 /\ usd0 # {}
    THEN [price0Usd |-> usd0, price1Usd |-> { rel.p1in0 * u : u \in usd0 }, anchor |-> "token0"]
    ELSE [price0Usd |-> {}, price1Usd |-> {}, anchor |-> "none"]

DeriveUsdFromRelative(rank0, rank1, usd0, usd1, rel) ==
    /\ call = NoCall
    /\ call' = [fn |-> "deriveUsdFromRelative", rank0 |-> rank0, rank1 |-> rank1,
                usd0 |-> usd0, usd1 |-> usd1, rel |-> rel,
                result |-> deriveUsdFromRelative(rank0, rank1, usd0, usd1, rel)]
    /\ UNCHANGED <<pipeVars, now, trendVars, winVars, gateCall, alertCall, taxCall,
                   ensureCall, http, timer>>

-----------------------------------------------------------------------------
(* fdv.ts FdvHistory of one market, as evaluateAlerts uses it              *)

\* push(): append {ts: Date.now(), fdv}, then drop from the head while older
\* than the 15 minute cutoff
RECURSIVE shiftOld(_, _)
shiftOld(arr, cutoff) ==
    IF arr # <<>> /\ arr[1].ts < cutoff THEN shiftOld(Tail(arr), cutoff) ELSE arr

fdvPush(arr, t, fdv) == shiftOld(Append(arr, [ts |-> t, fdv |-> fdv]), t - FDV_KEEP)

\* the index getMultiplier takes `prev` from: the newest sample with
\* ts <= targetTs, the first sample when there is none
prevIndex(arr, t) ==
    LET targetTs == t - FDV_MINUTES
        old == { i \in 1..Len(arr) : arr[i].ts <= targetTs }
    IN IF old = {} THEN 1 ELSE CHOOSE i \in old : \A j \in old : j <= i

\* getMultiplier(): ratio = now / prev as <<now, prev>>, {} when undefined
getMultiplier(arr, t) ==
    IF arr = <<>> THEN [ratio |-> {}, prevTs |-> {}]
    ELSE LET prev == arr[prevIndex(arr, t)]
         IN IF prev.fdv <= 0 THEN [ratio |-> {}, prevTs |-> {prev.ts}]
            ELSE [ratio |-> {<<arr[Len(arr)].fdv, prev.fdv>>}, prevTs |-> {prev.ts}]

fdvArr == IF call = NoCall THEN <<>> ELSE call.arr

\* evaluateAlerts with a defined fdvNow: push, getMultiplier(.., 3), hitFdv
FdvPushAndQuery(fdv) ==
    /\ call = NoCall \/ call.fn = "fdvHistory"
    /\ (IF call = NoCall THEN 0 ELSE call.pushes) < MaxFdv
    /\ LET arr == fdvPush(fdvArr, now, fdv)
           m == getMultiplier(arr, now)
       IN call' = [fn |-> "fdvHistory", arr |-> arr, t |-> now,
                   pushes |-> (IF call = NoCall THEN 0 ELSE call.pushes) + 1,
                   ratio |-> m.ratio, prevTs |-> m.prevTs,
                   hitFdv |-> \E f \in m.ratio : f[1] >= FDV_MULTIPLIER * f[2]]
    /\ UNCHANGED <<pipeVars, now, trendVars, winVars, gateCall, alertCall, taxCall,
                   ensureCall, http, timer>>

-----------------------------------------------------------------------------
(* safety/taxEstimator.ts: the sample array of one market                  *)

\* pushSample(): arr.push(s); while (arr.length && arr[0].ts < cutoff) arr.shift()
pushSample(arr, smp, t) == shiftOld(Append(arr, smp), t - TAX_KEEP)

RECURSIVE sumOf(_, _)
sumOf(arr, side) ==
    IF arr = <<>> THEN 0 ELSE (IF arr[1].side = side THEN arr[1].tax ELSE 0) + sumOf(Tail(arr), side)

\* avg(): sum / length as <<sum, length>>, {} (undefined) for an empty series
avg(arr, side) ==
    LET n == Cardinality({ i \in 1..Len(arr) : arr[i].side = side })
    IN IF n = 0 THEN {} ELSE {<<sumOf(arr, side), n>>}

\* getAvgTaxApprox(): both series are read from the stored array as it is
getAvgTaxApprox(arr) == [buyTax |-> avg(arr, "buy"), sellTax |-> avg(arr, "sell")]

taxArr == IF call = NoCall THEN <<>> ELSE call.arr

\* recordTaxApprox reaching pushSample with a clamped sample (percent)
TaxPushSample(side, tax) ==
    /\ call = NoCall \/ call.fn = "taxSamples"
    /\ (IF call = NoCall THEN 0 ELSE call.pushes) < MaxTax
    /\ call' = [fn |-> "taxSamples",
                arr |-> pushSample(taxArr, [ts |-> now, side |-> side, tax |-> tax], now),
                pushes |-> (IF call = NoCall THEN 0 ELSE call.pushes) + 1,
                t |-> now, queried |-> FALSE, result |-> getAvgTaxApprox(<<>>)]
    /\ UNCHANGED <<pipeVars, now, trendVars, winVars, gateCall, alertCall, taxCall,
                   ensureCall, http, timer>>

GetAvgTaxApprox ==
    /\ call # NoCall /\ call.fn = "taxSamples"
    /\ call' = [call EXCEPT !.t = now, !.queried = TRUE, !.result = getAvgTaxApprox(call.arr)]
    /\ UNCHANGED <<pipeVars, now, trendVars, winVars, gateCall, alertCall, taxCall,
                   ensureCall, http, timer>>

-----------------------------------------------------------------------------
(* state/watchlist.ts: sweep, and the calls that may come after it         *)

sweep_oneTtl(st, t) ==
    LET expired == { k \in Keys : st[k].status # "absent" /\ t - st[k].lastUpdated > INACTIVE_TTL }
    IN [store |-> [k \in Keys |-> IF k \in expired THEN Absent ELSE st[k]],
        removed |-> expired]

\* sweep(now): ttl by status, `if (now - entry.lastUpdated > ttl) delete`, the
\* removed keys returned
sweep(st, t) ==
    LET ttl(e) == IF e.status = "active" THEN ACTIVE_TTL ELSE INACTIVE_TTL
        expired == { k \in Keys : st[k].status # "absent" /\ t - st[k].lastUpdated > ttl(st[k]) }
    IN [store |-> [k \in Keys |-> IF k \in expired THEN Absent ELSE st[k]],
        removed |-> expired]

sweeps == IF call = NoCall THEN 0 ELSE call.n

Sweep ==
    /\ call = NoCall \/ call.fn = "sweep"
    /\ sweeps < MaxSweeps
    /\ store' = sweep(store, now).store
    /\ call' = [fn |-> "sweep", n |-> sweeps + 1, t |-> now,
                removed |-> sweep(store, now).removed]
    /\ UNCHANGED <<subscriptions, gate, gliq, probeErr, handlers, windows, taxes, evals,
                   fdvs, alerts, now, trendVars, winVars, gateCall, alertCall, taxCall,
                   ensureCall, http, timer>>

\* a Watchlist call on any key, known or not: op in enqueueNew, activate, reject, patchMeta
WatchlistCall(op, key) ==
    /\ call = NoCall \/ call.fn = "sweep"
    /\ store' = CASE op = "enqueueNew" -> enqueueNew(store, key)
                  [] op = "activate" -> activate(store, key, {9})
                  [] op = "reject" -> reject(store, key, "gates error")
                  [] op = "patchMeta" -> patchMeta(store, key, 6)
    /\ UNCHANGED <<subscriptions, gate, gliq, probeErr, handlers, windows, taxes, evals,
                   fdvs, alerts, now, trendVars, winVars, fnVars>>

-----------------------------------------------------------------------------
(* state/windows.ts: the buyers1m set of aggregateWithin                   *)

\* buyer of a trade: {} when none was given, else one address as delivered
Buyers == {{}, {[hex |-> "a1", upper |-> FALSE]}, {[hex |-> "a1", upper |-> TRUE]},
           {[hex |-> "b2", upper |-> FALSE]}}

\* buyers1m.clear(), then from the tail up to the first event older than
\* `start`: if (e.isBuy && e.buyer) buyers1m.add(e.buyer.toLowerCase())
RECURSIVE walkBuyers_asDelivered(_, _, _, _)
walkBuyers_asDelivered(events, i, start, acc) ==
    IF i = 0 THEN acc
    ELSE LET e == events[i]
         IN IF e.ts < start THEN acc
            ELSE walkBuyers_asDelivered(events, i - 1, start,
                                        IF e.isBuy THEN acc \cup e.buyer ELSE acc)

RECURSIVE walkBuyers(_, _, _, _)
walkBuyers(events, i, start, acc) ==
    IF i = 0 THEN acc
    ELSE LET e == events[i]
         IN IF e.ts < start THEN acc
            ELSE walkBuyers(events, i - 1, start,
                            IF e.isBuy THEN acc \cup { normalize(b) : b \in e.buyer } ELSE acc)

\* recordTrade({usd, isBuy, buyer, ts?})
RecordTradeBy(ts, usd, isBuy, buyer) ==
    /\ Len(win.events) < MaxBuys
    /\ win' = pruneIdle(record(getWindow(win, now),
                               [ts |-> ts, usd |-> usd, isBuy |-> isBuy, buyer |-> buyer]), now)
    /\ wq' = NoQuery
    /\ call' = NoCall
    /\ UNCHANGED <<pipeVars, now, trendVars, gateCall, alertCall, taxCall, ensureCall,
                   http, timer>>

\* WindowsManager.oneMinute() with uniqueBuyers = buyers1m.size; `events` keeps
\* the window the query found
OneMinuteBuyers ==
    /\ LET w == getWindow(win, now)
           pruned == prune(w.events, now)
           res == oneMinute(w.events, now)
       IN /\ call' = [fn |-> "oneMinute", t |-> now, events |-> w.events,
                      totalUsd |-> res.totalUsd, buyUsd |-> res.buyUsd,
                      buyTxs |-> res.buyTxs,
                      uniqueBuyers |-> Cardinality(walkBuyers(pruned, Len(pruned),
                                                              now - ONE_MINUTE, {}))]
          /\ win' = pruneIdle([w EXCEPT !.events = pruned], now)
    /\ wq' = NoQuery
    /\ UNCHANGED <<pipeVars, now, trendVars, gateCall, alertCall, taxCall, ensureCall,
                   http, timer>>

-----------------------------------------------------------------------------
(* pipeline/trending.ts pollChain() with handlers that can throw           *)

\* the loop of pollChain inside its try block; `throwing` = the pairs for which
\* the handler (ensureV2Market / ensureV3Market, called synchronously, the
\* subscription installed in it) throws: the exception leaves the loop for the
\* catch at the end of pollChain
RECURSIVE pollHandled(_, _, _, _, _, _)
pollHandled(chain, pairs, seen, out, added, throwing) ==
    IF pairs = <<>> THEN [emitted |-> out, added |-> added, failed |-> FALSE]
    ELSE LET item == Head(pairs)
             rest == Tail(pairs)
             key == <<chain, normalize(item.pair)>>
         IN IF ~dexSupported(chain, item.dexId)
            THEN pollHandled(chain, rest, seen, out, added, throwing)
            ELSE IF ~looksLikeAddress(item.pair) \/ ~looksLikeAddress(item.token0)
                    \/ ~looksLikeAddress(item.token1)
                 THEN pollHandled(chain, rest, seen, out, added, throwing)
            ELSE IF key \in seen THEN pollHandled(chain, rest, seen, out, added, throwing)
            ELSE IF item.liq = {} THEN pollHandled(chain, rest, seen, out, added, throwing)
            ELSE IF \E v \in item.liq : v < TRENDING_MIN_LIQ_USD
                 THEN pollHandled(chain, rest, seen, out, added, throwing)
            ELSE IF ~basePaired(item) THEN pollHandled(chain, rest, seen, out, added, throwing)
            ELSE IF item.pair.hex \in throwing
                 THEN [emitted |-> Append(out, normalize(item.pair)),
                       added |-> added \cup {key}, failed |-> TRUE]
            ELSE pollHandled(chain, rest, seen \cup {key}, Append(out, normalize(item.pair)),
                             added \cup {key}, throwing)

\* one pollChain on a reply of the trending endpoint, the dedup set empty
PollChainHandling(chain, pairs, throwing) ==
    /\ call = NoCall
    /\ LET r == pollHandled(chain, pairs, {}, <<>>, {}, throwing)
       IN call' = [fn |-> "pollHandling", chain |-> chain, pairs |-> pairs,
                   throwing |-> throwing, emitted |-> r.emitted, added |-> r.added,
                   failed |-> r.failed]
    /\ UNCHANGED <<pipeVars, now, trendVars, winVars, gateCall, alertCall, taxCall,
                   ensureCall, http, timer>>

-----------------------------------------------------------------------------
Init ==
    /\ store = [k \in Keys |-> Absent]
    /\ subscriptions = {}
    /\ gate = [k \in Keys |-> "idle"]
    /\ gliq = [k \in Keys |-> {}]
    /\ probeErr = [k \in Keys |-> FALSE]
    /\ handlers = <<>>
    /\ windows = [k \in Keys |-> <<>>]
    /\ taxes = {}
    /\ evals = <<>>
    /\ fdvs = {}
    /\ alerts = {}
    /\ now = 0
    /\ dedup = [k \in TrendKeys |-> 0]
    /\ polls = [s \in 1..MaxPolls |-> Idle]
    /\ emitted = [k \in TrendKeys |-> <<>>]
    /\ win = NoWindow
    /\ wq = NoQuery
    /\ gateCall = NoCall
    /\ alertCall = NoCall
    /\ taxCall = NoCall
    /\ ensureCall = NoCall
    /\ http = NoRequest
    /\ timer = TimerInit
    /\ call = NoCall

Next ==
    \/ \E p \in ListedPools, upper \in BOOLEAN : ensureV2Market(p, upper)
    \/ \E p \in ListedPools, upper \in BOOLEAN : ensureV3Market(p, upper)
    \/ \E k \in Keys, r \in ReserveReplies, d \in PairReplies :
          GateLiquidity(k, r, d)
    \/ \E k \in Keys, q \in {"route", "noroute", "err"} : GateSellability(k, q)
    \/ \E k \in Keys, d \in PairReplies : GateLpRisk(k, d)
    \/ \E k \in Keys, sent \in BOOLEAN : GateNotified(k, sent)
    \/ \E k \in Keys, usd \in {0, 6} : OnV2Mint(k, usd)

Spec == Init /\ [][Next]_vars

(* The swap path: the environment announces the pools of SwapPools only,   *)
(* the probes answer without error and the activation notice is sent.      *)
SwapPools == { p \in ListedPools : p.base0 \/ p.base1 }

SwapNext ==
    \/ \E p \in SwapPools : ensureV2Market(p, FALSE)
    \/ \E p \in SwapPools : ensureV3Market(p, FALSE)
    \/ \E k \in Keys, d \in {[kind |-> "ok", usd |-> 2], [kind |-> "ok", usd |-> 9]} :
          GateLiquidity(k, d, d)
    \/ \E k \in Keys : GateSellability(k, "route")
    \/ \E k \in Keys : GateLpRisk(k, [kind |-> "ok", usd |-> 9])
    \/ \E k \in Keys : GateNotified(k, TRUE)
    \/ \E k \in Keys : SwapDelivered(k)
    \/ \E i \in 1..MaxSwaps, priced \in BOOLEAN : SwapToWindows(i, priced)
    \/ \E i \in 1..MaxSwaps, sampled \in BOOLEAN : SwapTax(i, sampled)
    \/ \E i \in 1..MaxSwaps : SwapEvaluate(i)
    \/ \E i \in 1..MaxSwaps, fdvKnown \in BOOLEAN, level \in {"none", "strong"} :
          SwapVerdict(i, fdvKnown, level)

SwapSpec == Init /\ [][SwapNext]_vars

TrendNext ==
    \/ \E slot \in 1..MaxPolls, chain \in Chains :
          \E resp \in Responses(chain) : PollChain(slot, chain, resp)
    \/ \E slot \in 1..MaxPolls : PollFeeKnown(slot)
    \/ Tick

TrendSpec == Init /\ [][TrendNext]_vars

WinNext ==
    \/ \E lag \in Lags, tr \in Trades :
           now - lag >= 0 /\ RecordTrade(now - lag, tr.usd, tr.isBuy)
    \/ QueryOneMinute
    \/ QueryTenMinutes
    \/ QueryBaseline
    \/ Tick

WinSpec == Init /\ [][WinNext]_vars

FairSpec == Init /\ [][Next]_vars /\ WF_vars(Next)

(* Two markets announced and gated, every probe of a gate run answering:   *)
(* each await of runGates settles, with a value or with an error.          *)
ProbeNext ==
    \/ \E p \in SwapPools : ensureV2Market(p, FALSE)
    \/ \E p \in SwapPools : ensureV3Market(p, FALSE)
    \/ \E k \in Keys, r \in ReserveReplies, d \in PairReplies :
          GateLiquidity(k, r, d)
    \/ \E k \in Keys, q \in {"route", "noroute", "err"} : GateSellability(k, q)
    \/ \E k \in Keys, d \in PairReplies : GateLpRisk(k, d)
    \/ \E k \in Keys, sent \in BOOLEAN : GateNotified(k, sent)

ProbesReturn(k) ==
    /\ WF_vars(\E r \in ReserveReplies, d \in PairReplies : GateLiquidity(k, r, d))
    /\ WF_vars(\E q \in {"route", "noroute", "err"} : GateSellability(k, q))
    /\ WF_vars(\E d \in PairReplies : GateLpRisk(k, d))
    /\ WF_vars(\E sent \in BOOLEAN : GateNotified(k, sent))

ProbeFairSpec == Init /\ [][ProbeNext]_vars /\ \A k \in Keys : ProbesReturn(k)

(* The ingress fed with the pools whose token0 is a base asset, the one    *)
(* whose token1 holds no code included.                                    *)
Base0Pools == { p \in Pools : p.base0 }

CodeNext ==
    \/ \E p \in Base0Pools, upper \in BOOLEAN : ensureV2Market(p, upper)
    \/ \E p \in Base0Pools, upper \in BOOLEAN : ensureV3Market(p, upper)
    \/ \E k \in Keys, r \in ReserveReplies, d \in PairReplies :
          GateLiquidity(k, r, d)
    \/ \E k \in Keys, q \in {"route", "noroute", "err"} : GateSellability(k, q)
    \/ \E k \in Keys, d \in PairReplies : GateLpRisk(k, d)
    \/ \E k \in Keys, sent \in BOOLEAN : GateNotified(k, sent)

BytecodeSpec == Init /\ [][CodeNext]_vars

\* getBytecode on an address: the code it holds, "0x", or an RPC error
CodeRepliesOf(holdsCode) == IF holdsCode THEN {"code", "err"} ELSE {"empty", "err"}

(* evaluateAlerts called once from the swap handler on any metrics.        *)
AlertNext ==
    \E buyUsd \in {4, 15}, buyTxs \in {7, 8}, one \in {4}, rest \in {0, 7, 36},
       fdvRatio \in {{}, {<<5, 2>>}, {<<6, 2>>}}, swapResult \in SwapResults,
       liquidityUsd \in {{}, {0}, {100}, {200}}, lastMintUsd \in {{}, {5}, {6}} :
      EvaluateAlerts([buyUsd |-> buyUsd, buyTxs |-> buyTxs], one,
                     [num |-> rest, den |-> 9], fdvRatio, swapResult,
                     liquidityUsd, lastMintUsd)

AlertSpec == Init /\ [][AlertNext]_vars

(* recordTaxApprox called once on any reserves, direction and amounts.     *)
Amounts == {{}, {1}, {2}, {4}}

TaxNext ==
    \E R0 \in {0, 1, 4}, R1 \in {0, 1, 4}, direction \in Directions,
       inAmt \in Amounts, outAmt \in Amounts :
      RecordTaxApprox(R0, R1, direction, inAmt, outAmt)

TaxSpec == Init /\ [][TaxNext]_vars

(* The ingress with a running clock: candidates arrive again for keys the  *)
(* Watchlist holds, in every status.                                       *)
DupNext ==
    \/ \E p \in SwapPools : ensureV2Market(p, FALSE)
    \/ \E p \in SwapPools : ensureV3Market(p, FALSE)
    \/ \E k \in Keys, d \in {[kind |-> "ok", usd |-> 2], [kind |-> "ok", usd |-> 9]} :
          GateLiquidity(k, d, d)
    \/ \E k \in Keys : GateSellability(k, "route")
    \/ \E k \in Keys : GateLpRisk(k, [kind |-> "ok", usd |-> 9])
    \/ \E k \in Keys : GateNotified(k, TRUE)
    \/ \E k \in Keys : OnV2Mint(k, 6)
    \/ \E p \in SwapPools, upper \in BOOLEAN : EnsureKnown(p, upper)
    \/ now < MaxDupTime /\ Tick

DupSpec == Init /\ [][DupNext]_vars

(* One getWithRetry call; every request settles (axios timeout) and every  *)
(* backoff timer fires.                                                    *)
HttpNext ==
    \/ HttpCall
    \/ \E reply \in Replies, jitter \in {0, JITTER - 1} : HttpReply(reply, jitter)
    \/ HttpBackoffDone

HttpSpec == Init /\ [][HttpNext]_vars /\ WF_vars(HttpNext)

(* The trending watcher: the interval keeps firing and every poll settles  *)
(* (its HTTP calls carry timeouts).                                        *)
TickNext ==
    \/ TimerTick
    \/ \E t \in 1..MaxTicks, c \in Chains, outcome \in {"ok", "throws"} :
          PollChainSettles(t, c, outcome)
    \/ \E t \in 1..MaxTicks : TickResolves(t)

TickSpec ==
    /\ Init /\ [][TickNext]_vars
    /\ WF_vars(TimerTick)
    /\ \A t \in 1..MaxTicks, c \in Chains :
          WF_vars(\E outcome \in {"ok", "throws"} : PollChainSettles(t, c, outcome))
    /\ \A t \in 1..MaxTicks : WF_vars(TickResolves(t))

(* One poll of one chain on any reply of the aggregator.                   *)
MaxReply == 3

SeqsUpTo(S, n) == UNION { [1..m -> S] : m \in 0..n }

PollFnNext ==
    \/ /\ call = NoCall
       /\ \E chain \in Chains, primary \in SeqsUpTo(TEntries, MaxReply) :
         \E seen \in {{}, {<<chain, TAddr("p1", FALSE, "ok")>>}} :
            PollChainOnce(chain, [ok |-> TRUE, pairs |-> primary], <<>>, seen)
    \/ /\ call = NoCall
       /\ \E chain \in Chains, buckets \in SeqsUpTo(GoodEntries, MaxReply + 1) :
         PollChainOnce(chain, [ok |-> FALSE, pairs |-> <<>>], buckets, {})

PollFnSpec == Init /\ [][PollFnNext]_vars

(* Swap handlers of one market: they start, wait for their prices and     *)
(* finish in any order while the clock runs.                               *)
SwapWinNext ==
    \/ SwapHandlerStarts
    \/ \E delta \in {-3, 0, 3}, usdByBase \in {{}, {NaN}, {Num(0)}, {Num(6)}},
          fallbackPrice \in {{}, {Num(2)}, {Infinity}} :
         OnSwapToWindows(delta, usdByBase, fallbackPrice)
    \/ now < MaxDupTime /\ Tick

SwapWinSpec == Init /\ [][SwapWinNext]_vars

(* runGates for any pool and any replies of its probes.                    *)
GatePools ==
    Pools \cup { [chain |-> "BSC", type |-> "v2", hex |-> "ee", base0 |-> TRUE,
                  base1 |-> FALSE, code |-> AllCode] }

RunFnNext ==
    \E p \in GatePools, r \in ReserveReplies, d \in PairReplies, d2 \in PairReplies :
      \E q0 \in RouteReplies, q1 \in RouteReplies :
        RunGatesOnce(p, r, d, [token0 |-> q0, token1 |-> q1], d2)

RunFnSpec == Init /\ [][RunFnNext]_vars

(* checkSellabilityV2 called once, any replies of the router.              *)
SellV2Next ==
    /\ call = NoCall
    /\ \E chain \in Chains, isBase \in BOOLEAN, usd \in {"quote", "undefined", "throws"},
          dec \in {"ok", "throws"} :
         LET token == IF isBase THEN pickCommonBases(chain)[1] ELSE "MEME"
             bases == pickCommonBases(chain)
         IN \E replies \in [Range(oneHopPaths(token, bases)) \cup Range(allTwoHop(token, bases))
                               -> QuoteReplies] :
               CheckSellabilityV2(chain, token, isBase, usd, dec, replies)

SellV2Spec == Init /\ [][SellV2Next]_vars

(* checkSellabilityV3 called once: token addresses in either order, any    *)
(* replies of the factory, the token and the quoter.                       *)
SellV3Next ==
    /\ call = NoCall
    /\ \E token0 \in 1..2, is0Base \in BOOLEAN, is1Base \in BOOLEAN,
          reply \in PoolReplies, dec \in {"ok", "throws"}, quotes \in [1..3 -> QuoteReplies] :
         CheckSellabilityV3(token0, 3 - token0, is0Base, is1Base, reply, dec, quotes)

SellV3Spec == Init /\ [][SellV3Next]_vars

(* deriveUsdFromRelative called once on any pair of distinct tokens.       *)
DeriveNext ==
    /\ call = NoCall
    /\ \E rank0 \in 0..2, rank1 \in 0..2, usd0 \in {{}, {1}, {3}}, usd1 \in {{}, {1}, {3}},
          rel \in {[p0in1 |-> 2, p1in0 |-> 1], [p0in1 |-> 1, p1in0 |-> 4]} :
         /\ (rank0 > 0 /\ rank1 > 0) => rank0 # rank1
         /\ DeriveUsdFromRelative(rank0, rank1, usd0, usd1, rel)

DeriveSpec == Init /\ [][DeriveNext]_vars

(* FDV samples of one market pushed and queried while the clock runs.      *)
FdvNext ==
    \/ \E fdv \in {0, 1, 3} : FdvPushAndQuery(fdv)
    \/ Tick

FdvSpec == Init /\ [][FdvNext]_vars

(* Tax samples of one market pushed and averaged while the clock runs.     *)
TaxAvgNext ==
    \/ \E side \in {"buy", "sell"}, tax \in {10, 30} : TaxPushSample(side, tax)
    \/ GetAvgTaxApprox
    \/ Tick

TaxAvgSpec == Init /\ [][TaxAvgNext]_vars

(* Two Watchlist keys: entries made, changed and swept while the clock runs. *)
SweepKeys == { k \in Keys : PoolOf(k).type = "v2" /\ PoolOf(k).chain = "ETH" }

SweepNext ==
    \/ \E op \in {"enqueueNew", "activate", "reject", "patchMeta"}, k \in SweepKeys :
          WatchlistCall(op, k)
    \/ Sweep
    \/ now < MaxSweepTime /\ Tick

SweepSpec == Init /\ [][SweepNext]_vars

(* The window of one market, its trades stamped with the wall clock as the *)
(* swap handlers record them, over a time longer than idleDropMs.          *)
IdleNext ==
    \/ \E tr \in Trades : RecordTrade(now, tr.usd, tr.isBuy)
    \/ QueryOneMinute
    \/ QueryTenMinutes
    \/ QueryBaseline
    \/ Tick

IdleSpec == Init /\ [][IdleNext]_vars

(* Trades with buyers recorded in one market's window as the swap handlers *)
(* record them, oneMinute asked between the other aggregate queries.       *)
BuyersNext ==
    \/ \E isBuy \in BOOLEAN, buyer \in Buyers : RecordTradeBy(now, 1, isBuy, buyer)
    \/ OneMinuteBuyers
    \/ QueryTenMinutes
    \/ QueryBaseline
    \/ now < KEEP_MS /\ Tick

BuyersSpec == Init /\ [][BuyersNext]_vars

(* One poll of one chain, the handler throwing for any of the pairs.       *)
HandlingNext ==
    /\ call = NoCall
    /\ \E chain \in Chains, pairs \in SeqsUpTo(GoodEntries, MaxReply) :
         \E throwing \in SUBSET {"p1", "p2", "p3"} :
            PollChainHandling(chain, pairs, throwing)

HandlingSpec == Init /\ [][HandlingNext]_vars

(* The composed pipeline: markets announced, also again and in either     *)
(* letter case, gated, and their swaps handled while the gates run; the    *)
(* activation notice can fail.                                             *)
ComposedNext ==
    \/ \E p \in SwapPools, upper \in BOOLEAN : ensureV2Market(p, upper)
    \/ \E p \in SwapPools, upper \in BOOLEAN : ensureV3Market(p, upper)
    \/ \E k \in Keys, d \in {[kind |-> "ok", usd |-> 2], [kind |-> "ok", usd |-> 9]} :
          GateLiquidity(k, d, d)
    \/ \E k \in Keys : GateSellability(k, "route")
    \/ \E k \in Keys : GateLpRisk(k, [kind |-> "ok", usd |-> 9])
    \/ \E k \in Keys, sent \in BOOLEAN : GateNotified(k, sent)
    \/ \E k \in Keys : SwapDelivered(k)
    \/ \E i \in 1..MaxSwaps : SwapToWindows(i, TRUE)
    \/ \E i \in 1..MaxSwaps, sampled \in BOOLEAN : SwapTaxSampled(i, sampled)
    \/ \E i \in 1..MaxSwaps : SwapEvaluate(i)
    \/ \E i \in 1..MaxSwaps : SwapVerdict(i, FALSE, "none")

ComposedSpec == Init /\ [][ComposedNext]_vars

(* passSafetyGates called once on any candidate, any probe replies.        *)
GateFnNext ==
    \E p \in Pools, r \in ReserveReplies, d \in PairReplies, d2 \in PairReplies :
      \E cp \in CodeRepliesOf(p.code.pair), c0 \in CodeRepliesOf(p.code.token0),
         c1 \in CodeRepliesOf(p.code.token1),
         q \in {"route", "noroute", "err"}, ts \in TaxAvgs, tb \in TaxAvgs :
        PassSafetyGates(p, [pair |-> cp, token0 |-> c0, token1 |-> c1], r, d, q, d2,
                        [sellTax |-> ts, buyTax |-> tb])

GateFnSpec == Init /\ [][GateFnNext]_vars

-----------------------------------------------------------------------------
(* Properties                                                              *)

\* C1: the status of an entry only moves pending -> active or pending ->
\* rejected; an active or rejected entry keeps its status in every later step.
C1_StatusMonotone ==
    [][\A k \in Keys : store[k].status \in {"active", "rejected"}
                          => store'[k].status = store[k].status]_vars

\* C2: the subscription table never holds more than MAX_ACTIVE_MARKETS entries.
C2_SlotBudget == Cardinality(subscriptions) <= MAX_ACTIVE_MARKETS

C2_TableFull ==
    /\ Cardinality(subscriptions) = MAX_ACTIVE_MARKETS
    /\ \E k \in Keys : has(k) /\ k \notin subscriptions

\* the handlers that appended to a window or started an alert evaluation
SwapEffects ==
    UNION { { windows[k][n] : n \in 1..Len(windows[k]) } : k \in Keys }
      \cup { evals[n] : n \in 1..Len(evals) }

\* C3: a swap reaches the window, the tax samples, the alert evaluation or the
\* notifier only if its market's entry was active when its handler started.
C3_OnlyActiveSwaps ==
    /\ \A i \in 1..Len(handlers) :
          (i \in SwapEffects \/ handlers[i].pc # "done") => handlers[i].st = "active"
    /\ taxes \cup fdvs \cup alerts \subseteq {"active"}

C3_SwapsSeenInEveryStatus ==
    /\ \E i \in 1..Len(handlers) : handlers[i].st \in {"pending", "rejected"}
    /\ \E i \in 1..Len(handlers) :
          /\ handlers[i].pc = "done" /\ i \in SwapEffects
          /\ \E k \in Keys : \E n \in 1..Len(windows[k]) : windows[k][n] = i
    /\ taxes # {} /\ fdvs # {} /\ alerts # {}

\* C4: no rejected market holds a subscription, and a market holds one only
\* after its gates succeeded.
C4_SubscribedOnlyAfterGates ==
    \A k \in Keys :
        /\ store[k].status = "rejected" => k \notin subscriptions
        /\ k \in subscriptions => store[k].status = "active"

\* C5: a gate run in which a probe threw never leaves the market active.
C5_ProbeErrorRejects ==
    \A k \in Keys : probeErr[k] => store[k].status # "active"

Increasing(seq) == \A a, b \in 1..Len(seq) : a < b => seq[a] < seq[b]

EvalsOf(k) ==
    LET OfKey(i) == handlers[i].key = k IN SelectSeq(evals, OfKey)

\* C6: two emissions of one (chain, pair) key to the candidate handlers are at
\* least the dedup TTL apart.
C6_EmissionsTtlApart ==
    \A k \in TrendKeys : \A n \in 1..Len(emitted[k]) :
        n > 1 => emitted[k][n] - emitted[k][n - 1] >= SOURCE_TTL

SpanOf(kind) == IF kind = "oneMinute" THEN ONE_MINUTE ELSE KEEP_MS

\* C7: no aggregate counts an event older than the query time minus the span of
\* the query (one minute for oneMinute, the 10-minute span for the others).
C7_NoStaleEventCounted ==
    wq.kind # "none" => \A ts \in wq.used : ts >= wq.t - SpanOf(wq.kind)

\* a query that counted a fresh event while a stale one sat in the window
C7_StaleEventSkipped ==
    /\ wq.kind = "oneMinute" /\ wq.used # {} /\ wq.totalUsd > 0
    /\ \E n \in 1..Len(win.events) : win.events[n].ts < wq.t - ONE_MINUTE
    /\ \E n \in 1..Len(win.events) : win.events[n].ts < now - KEEP_MS

\* C8: swaps of one market are appended to its window, and evaluated, in the
\* order in which the subscription delivered them.
C8_DeliveryOrder ==
    \A k \in Keys : Increasing(windows[k]) /\ Increasing(EvalsOf(k))

\* C9: a slot held by a market that went idle (rejected, its swaps ignored for
\* good) is eventually given back: its key leaves the subscription table.
C9_IdleSlotReclaimed ==
    \A k \in Keys :
        (k \in subscriptions /\ store[k].status = "rejected" /\ gate[k] = "done")
            ~> (k \notin subscriptions)

\* C11: a gate run evaluates no check after the first one that fails, and the
\* reasons it records name that check and nothing else.
C11_ShortCircuit ==
    gateCall # NoCall =>
        /\ \A i, j \in 1..Len(gateCall.verdicts) :
               i < j => gateCall.verdicts[i].pass
        /\ ~gateCall.ok =>
               \A n \in 1..Len(gateCall.reasons) :
                  /\ gateCall.reasons[n] = gateCall.reasons[1]
                  /\ \E i \in 1..Len(gateCall.verdicts) :
                        /\ gateCall.verdicts[i].check = gateCall.reasons[n]
                        /\ ~gateCall.verdicts[i].pass

\* C13: the score is 2*buy + 2*volumeBurst + 2*fdvBurst + 3*whale + 1*mintBonus;
\* the level is strong iff score >= 6 and (whale or (volumeBurst and fdvBurst)),
\* else normal iff score >= 3, else none; a notification is sent iff the level
\* is not none.
C13_ScoreAndLevel ==
    alertCall # NoCall =>
        LET f == alertCall.flags
            score == 2 * b2n(f.hitBuy) + 2 * b2n(f.hitVel) + 2 * b2n(f.hitFdv)
                     + 3 * b2n(f.hitWhale) + b2n(f.mint)
            strong == score >= 6 /\ (f.hitWhale \/ (f.hitVel /\ f.hitFdv))
        IN /\ alertCall.score = score
           /\ alertCall.level = "strong" <=> strong
           /\ alertCall.level = "normal" <=> ~strong /\ score >= 3
           /\ alertCall.level = "none" <=> score < 3
           /\ alertCall.sent <=> alertCall.level # "none"

\* a whale buy with exactly one 2-point flag: score 5, below the strong threshold
C13_WhalePlusOneFlag ==
    /\ alertCall # NoCall
    /\ alertCall.flags.hitWhale
    /\ alertCall.score = 5
    /\ alertCall.level = "normal"
    /\ alertCall.sent

\* the evaluated swap is a buy whose USD size is at least WHALE_LIQUIDITY_RATIO
\* of the entry's liquidity, and the FDV multiplier reaches FDV_MULTIPLIER
WhaleRatioAndFdv ==
    /\ alertCall # NoCall
    /\ alertCall.swap.priced /\ alertCall.swap.isBuy
    /\ \E l \in alertCall.liquidityUsd :
          l > 0 /\ alertCall.swap.usd * 100 >= WHALE_LIQUIDITY_RATIO * l
    /\ \E f \in alertCall.fdvRatio : f[1] >= FDV_MULTIPLIER * f[2]

\* C14 (as stated): whenever a buy fires the whale signal by liquidity ratio and
\* fdvBurst also fires, the score is at least 7 and the verdict is strong.
C14_WhaleFdvStrong ==
    WhaleRatioAndFdv => alertCall.score >= 7 /\ alertCall.level = "strong"

\* C14 (amended): whenever a buy fires the whale signal by liquidity ratio and
\* fdvBurst also fires, the score is at least 5 and a notification is sent; the
\* verdict is strong iff the score reaches 6, i.e. iff one of buy, volumeBurst
\* and the mint bonus fires as well, and normal otherwise.
C14_WhaleFdvAtLeastNormal ==
    WhaleRatioAndFdv =>
        /\ alertCall.score >= 5
        /\ alertCall.sent
        /\ alertCall.level = "strong" <=>
               (alertCall.flags.hitBuy \/ alertCall.flags.hitVel \/ alertCall.flags.mint)
        /\ alertCall.level = "strong" <=> alertCall.score >= 6
        /\ alertCall.level = "normal" <=> alertCall.score = 5

\* a buy of 4k on 100k of liquidity with fdvBurst and nothing else: score 5, normal
C14_WhaleFdvOnly ==
    /\ WhaleRatioAndFdv
    /\ alertCall.swap.usd = 4 /\ alertCall.liquidityUsd = {100}
    /\ alertCall.score = 5
    /\ alertCall.level = "normal"

Stored == IF taxCall = NoCall THEN {} ELSE taxCall.samples

\* fraction a is below fraction b (positive denominators)
Below(a, b) == a[1] * b[2] < b[1] * a[2]

C17_DuplicateIsNoOp ==
    ensureCall # NoCall =>
        /\ ensureCall.returned = ensureCall.before
        /\ ensureCall.after = ensureCall.before
        /\ ensureCall.gateAfter = ensureCall.gateBefore

\* a candidate arrives for a rejected entry after the clock has moved on
C17_DuplicateOfRejected ==
    /\ ensureCall # NoCall
    /\ ensureCall.before.status = "rejected"
    /\ ensureCall.before.reason # ""
    /\ ensureCall.before.lastUpdated < ensureCall.t
    /\ ensureCall.gateBefore = "done"

\* failure replies that the retry loop is to retry: 403, 429 and 5xx responses
RetriedFailure(reply) ==
    reply.kind = "status" /\ \E st \in reply.response : st \in {403, 429} \/ st >= 500

HttpDone == http.pc \in {"returned", "thrown"}

RECURSIVE Pow2(_)
Pow2(n) == IF n = 0 THEN 1 ELSE 2 * Pow2(n - 1)

HttpSafe ==
    LET n == Len(http.attempts)
        last == http.attempts[n]
    IN /\ n <= TRIES
       \* every attempt but the last failed with 403/429/5xx and was followed by a wait
       /\ \A k \in 1..(n - 1) :
             /\ RetriedFailure(http.attempts[k])
             /\ http.waits[k] >= RETRY_DELAY * Pow2(k - 1)
             /\ http.waits[k] < RETRY_DELAY * Pow2(k - 1) + JITTER
       /\ http.pc = "returned" =>
             n >= 1 /\ last.kind = "ok" /\ http.result = {last.data} /\ Len(http.waits) = n - 1
       /\ http.pc = "thrown" =>
             /\ n >= 1 /\ last.kind # "ok" /\ Len(http.waits) = n - 1
             /\ RetriedFailure(last) => n = TRIES
       /\ http.pc = "wait" =>
             n >= 1 /\ RetriedFailure(last) /\ n < TRIES /\ Len(http.waits) = n
       /\ http.pc = "request" => Len(http.waits) = n /\ n < TRIES
       \* a settled attempt leaves the call returned, thrown or waiting
       /\ n >= 1 /\ http.pc = "request" => RetriedFailure(last)
       /\ n >= 1 /\ ~RetriedFailure(last) => HttpDone

\* C18: getWithRetry makes at most 3 attempts and always terminates; it returns
\* the data of the first successful attempt; after a 403, 429 or 5xx response it
\* waits (400 ms doubling per retry, plus jitter) and retries unless that was
\* the 3rd attempt, in which case the error propagates; any other failure
\* propagates at once, without another attempt.
C18_BoundedRetry == []HttpSafe /\ <>HttpDone

\* two 5xx/429 responses, two waits of 400+ and 800+ ms, then data on the 3rd attempt
C18_ThirdAttemptSucceeds ==
    /\ http.pc = "returned"
    /\ Len(http.attempts) = TRIES
    /\ Len(http.waits) = 2
    /\ http.waits[2] >= 2 * RETRY_DELAY

\* C19: a request that fails with a timeout (no response) is retried with
\* backoff like a retriable status: the call does not end in an error on a
\* timeout before the last attempt.
C19_TimeoutRetried ==
    LET n == Len(http.attempts)
    IN ~(http.pc = "thrown" /\ n >= 1 /\ n < TRIES /\ http.attempts[n].kind = "timeout")

PollFailed(t, c) == [tick |-> t, chain |-> c, failed |-> TRUE] \in timer.log

PollSettled(t, c) == \E f \in BOOLEAN : [tick |-> t, chain |-> c, failed |-> f] \in timer.log

PollStarted(t, c) == [tick |-> t, chain |-> c] \in timer.running \/ PollSettled(t, c)

\* C20: a failed trending poll never stops polling: the timer stays armed, the
\* other chain's poll of the same tick runs to completion (and the tick
\* resolves), and the failing chain is polled again at the next tick.
C20_FailedPollKeepsPolling ==
    /\ [](timer.armed)
    /\ \A t \in 1..MaxTicks, c \in Chains :
          /\ PollFailed(t, c) ~>
                ((\A o \in Chains : PollSettled(t, o)) /\ t \in timer.resolved)
          /\ (PollFailed(t, c) /\ t < MaxTicks) ~> PollStarted(t + 1, c)

\* a chain's poll failed in tick 1 while the other chain's succeeded, and the
\* failing chain's poll of tick 2 has settled
C20_FailedThenPolledAgain ==
    \E c \in Chains, o \in Chains :
        /\ PollFailed(1, c)
        /\ [tick |-> 1, chain |-> o, failed |-> FALSE] \in timer.log
        /\ PollSettled(2, c)
        /\ timer.armed

\* C21: one poll of one chain hands at most TRENDING_TOP_K candidates to the
\* handlers, whatever the aggregator returns.
C21_AtMostTopK ==
    call.fn = "pollChain" => Len(call.emitted) <= TRENDING_TOP_K

\* C26: every candidate handed to a handler passed all filters: its DEX id is in
\* the chain's allowlist, pair and token addresses have the address shape and
\* are passed lowercased, liquidity is finite and >= TRENDING_MIN_LIQ_USD, a
\* token is a base token, and it goes out as v3 iff the DEX id contains "v3";
\* keys are added to the dedup set only for such candidates.
C26_OnlyFilteredCandidates ==
    call.fn = "pollChain" =>
        /\ \A n \in 1..Len(call.emitted) :
              LET c == call.emitted[n]
                  it == c.item
              IN /\ \E m \in 1..Len(call.pairs) : call.pairs[m] = it
                 /\ it.dexId \cap SUPPORTED_DEX_IDS(call.chain) # {}
                 /\ it.pair.shape = "ok" /\ it.token0.shape = "ok" /\ it.token1.shape = "ok"
                 /\ c.pair.hex = it.pair.hex /\ ~c.pair.upper
                 /\ c.token0.hex = it.token0.hex /\ ~c.token0.upper
                 /\ c.token1.hex = it.token1.hex /\ ~c.token1.upper
                 /\ \E v \in it.liq : v >= TRENDING_MIN_LIQ_USD
                 /\ it.base
                 /\ c.type = "v3" <=> "v3" \in it.dexId
                 /\ <<call.chain, c.pair>> \notin call.seen
        /\ call.added = { <<call.chain, call.emitted[n].pair>> : n \in 1..Len(call.emitted) }

\* a reply with a rejected entry and an upper-case v3 pool: one candidate goes
\* out, lowercased, as v3
C26_MixedReply ==
    /\ call.fn = "pollChain"
    /\ Len(call.pairs) = 3
    /\ Len(call.emitted) = 1
    /\ call.emitted[1].type = "v3"
    /\ call.emitted[1].item.pair.upper
    /\ \E m \in 1..Len(call.pairs) : ~call.pairs[m].base

FinitePositive(x) == \E p \in x : p.k = "num" /\ p.v > 0

\* C22: when neither the AMM-derived value nor the aggregator price yields a
\* finite positive USD value, the window is left as it is and the handler gets
\* no result; every recorded event has a finite usd > 0.
C22_UnpricedSwapDropped ==
    /\ [][ (call.fn = "onSwapToWindows" /\ call'.fn = "onSwapToWindows"
            /\ call'.pending < call.pending
            /\ ~FinitePositive(call'.usdByBase) /\ ~FinitePositive(call'.fallback))
           => (win' = win /\ call'.result = {}) ]_vars
    /\ [](\A n \in 1..Len(win.events) :
             win.events[n].usd.k = "num" /\ win.events[n].usd.v > 0)

\* a handler ended without a result (the aggregator price times the amount is
\* not finite) while the window holds an earlier priced trade
C22_DroppedAfterRecorded ==
    /\ call.fn = "onSwapToWindows"
    /\ call.result = {}
    /\ call.usdByBase = {} /\ call.fallback = {Infinity}
    /\ Len(win.events) = 1

\* C23: in the market's window the timestamps of the events are non-decreasing
\* in append order, whatever the order in which the swap handlers finish.
C23_TimestampsNonDecreasing ==
    \A i, j \in 1..Len(win.events) : i < j => win.events[i].ts <= win.events[j].ts

\* two handlers were suspended together and finished at different clock values
C23_TwoAppendsApart ==
    /\ call.fn = "onSwapToWindows"
    /\ Len(win.events) = 2
    /\ win.events[1].ts < win.events[2].ts
    /\ call.pending > 0

C25_ActiveKeepsLiquidity ==
    /\ [](\A k \in Keys : store[k].status = "active" =>
              /\ store[k].liquidityUsd # {}
              /\ \A v \in store[k].liquidityUsd : v >= MIN_LIQ_USD)
    /\ [][\A k \in Keys :
            /\ (store[k].status # "active" /\ store'[k].status = "active")
                  => store'[k].liquidityUsd = gliq[k]
            /\ (store[k].status = "active" /\ store'[k].status = "active")
                  => store'[k].liquidityUsd = store[k].liquidityUsd]_vars

\* an active entry that a Mint record patched
C25_ActiveWithMintRecord ==
    \E k \in Keys :
        /\ store[k].status = "active" /\ gate[k] = "done"
        /\ store[k].lastMintUsd = {6}
        /\ store[k].liquidityUsd = {9}

\* C27: the LP-risk score is 2 when neither token is a base token (else 0)
\* plus 2 for a reported liquidity below 3000 USD, 1 for one in [3000, 8000),
\* 0 above, for every reported liquidity, 0 included; rejected iff score >= 2.
C27_LpRiskScore ==
    (call.fn = "runGates" /\ call.score # {} /\ call.lp.kind = "ok") =>
        LET expected == (IF ~(call.pool.base0 \/ call.pool.base1) THEN 2 ELSE 0)
                        + (IF call.lp.usd < LP_LOW_LIQ THEN 2
                           ELSE IF call.lp.usd < LP_MEDIUM_LIQ THEN 1 ELSE 0)
        IN /\ call.score = {expected}
           /\ (call.status = "rejected") <=> (expected >= 2)

\* C29: a V2 market with exactly one base-token side is activated only if a
\* static route exists from its non-base (target) token, whichever side it is.
C29_TargetTokenProbed ==
    (/\ call.fn = "runGates" /\ call.pool.type = "v2"
     /\ call.pool.base0 # call.pool.base1
     /\ call.status = "active")
        => call.routes[targetOf(call.pool)] = "route"

\* the paths of the enumeration, in the order stated: 1-hop, then 2-hop with mid # dst
C28Paths == oneHopPaths(call.token, pickCommonBases(call.chain))
              \o SelectSeq(allTwoHop(call.token, pickCommonBases(call.chain)),
                           LAMBDA path : path[2] # path[3])

C28Positive == \E n \in 1..Len(C28Paths) : call.replies[C28Paths[n]] = "pos"

C30_PoolVerifiedFirst ==
    call.fn = "checkSellabilityV3" =>
        LET res == call.result
        IN /\ res.ok =>
                 /\ call.getPool \in {"pool", "POOL"}
                 /\ res.calls[1] = [op |-> "getPool", args |-> <<1, 2>>]
           /\ \A n \in 1..Len(res.calls) :
                 res.calls[n].op = "quote" => (n > 1 /\ res.calls[1].op = "getPool")
           /\ \A n \in 2..Len(res.calls) : res.calls[n].op # "getPool"
           /\ (call.getPool = "zero" /\ (call.is0Base \/ call.is1Base)) =>
                 (~res.ok /\ res.note = "factory.getPool returned zero address"
                    /\ Len(res.calls) = 1)
           /\ (~call.is0Base /\ ~call.is1Base) => (~res.ok /\ res.calls = <<>>)

\* tokens delivered in descending order, the pool verified, the third probe positive
C30_VerifiedThenQuoted ==
    /\ call.fn = "checkSellabilityV3"
    /\ call.token0 = 2 /\ call.is0Base /\ ~call.is1Base
    /\ call.getPool = "POOL"
    /\ call.quotes = <<"revert", "zero", "pos">>
    /\ call.result.ok /\ Len(call.result.calls) = 6

\* C31: with both tokens base tokens of known USD price, the derivation is
\* anchored on the token that comes first in the base-token order, be it
\* token0 or token1.
C31_AnchorByPriority ==
    (/\ call.fn = "deriveUsdFromRelative"
     /\ call.rank0 > 0 /\ call.rank1 > 0
     /\ call.usd0 # {} /\ call.usd1 # {})
        => call.result.anchor = IF call.rank0 < call.rank1 THEN "token0" ELSE "token1"

\* C32: fdvBurst fires only from the newest sample compared with a sample taken
\* at least 3 minutes before the query and at most 15 minutes before it.
C32_FdvAgainstOldSample ==
    (call.fn = "fdvHistory" /\ call.hitFdv) =>
        \A ts \in call.prevTs : ts <= call.t - FDV_MINUTES /\ ts >= call.t - FDV_KEEP

\* the stored samples recorded within the last 10 minutes before the query
C33Recent == SelectSeq(call.arr, LAMBDA smp : smp.ts >= call.t - TAX_KEEP)

\* C33: the averages returned at time t are, per series, the mean of exactly
\* the samples recorded within the last 10 minutes.
C33_AvgOverLastTenMinutes ==
    (call.fn = "taxSamples" /\ call.queried) =>
        call.result = [buyTax |-> avg(C33Recent, "buy"), sellTax |-> avg(C33Recent, "sell")]

\* the entries the stated rule expires at the current time
C34Expired ==
    { k \in Keys : \/ store[k].status = "active" /\ now - store[k].lastUpdated > ACTIVE_TTL
                   \/ store[k].status \in {"pending", "rejected"}
                        /\ now - store[k].lastUpdated > INACTIVE_TTL }

\* C34: a sweep removes exactly the active entries last updated more than 24 h
\* ago and the pending or rejected ones last updated more than 1 h ago, returns
\* their keys and leaves the other entries as they are; only enqueueNew makes
\* an entry for an absent key, a late activate, reject or patchMeta does not.
C34_SweepExactly ==
    /\ [][ (call' # call /\ call'.fn = "sweep") =>
              /\ call'.removed = C34Expired
              /\ \A k \in Keys : store'[k] = IF k \in C34Expired THEN Absent ELSE store[k] ]_vars
    /\ [][ \A k \in Keys : (store[k] = Absent /\ store'[k] # Absent) =>
              (store'[k].status = "pending" /\ store'[k].firstSeen = now) ]_vars

\* one sweep removed a stale rejected entry and kept an active one of the same age
C34_SweptOneKeptOne ==
    /\ call.fn = "sweep" /\ call.t = now
    /\ \E k \in call.removed : store[k] = Absent
    /\ \E k \in Keys : /\ store[k].status = "active"
                        /\ now - store[k].lastUpdated > INACTIVE_TTL

C36Buyers ==
    UNION { { normalize(b) : b \in call.events[n].buyer } :
              n \in { m \in 1..Len(call.events) :
                        call.events[m].isBuy /\ call.events[m].ts >= call.t - ONE_MINUTE } }

C37_ErrorLocalized ==
    call.fn = "pollHandling" =>
        LET r == pollEntries(call.chain, call.pairs, {}, <<>>, {})
        IN call.emitted = [i \in 1..Len(r.emitted) |-> r.emitted[i].pair]

\* the sum of usd over the events stamped at or after `start`
RECURSIVE C38Sum(_, _)
C38Sum(events, start) ==
    IF events = <<>> THEN 0
    ELSE (IF Head(events).ts >= start THEN Head(events).usd ELSE 0) + C38Sum(Tail(events), start)

\* C38: whatever the order of the timestamps recorded, oneMinute(now).totalUsd
\* is the sum of usd over the retained events of the last minute, and
\* tenMinutesTotal(now) the sum over those of the last ten minutes.
C38_AggregatesComplete ==
    /\ wq.kind = "oneMinute" => wq.totalUsd = C38Sum(win.events, wq.t - ONE_MINUTE)
    /\ wq.kind = "tenMinutesTotal" => wq.totalUsd = C38Sum(win.events, wq.t - KEEP_MS)

\* C39: a gate run that is over leaves its entry active or rejected, and when
\* the probes of the gate runs all answer every pending market becomes active
\* or rejected.
C39_GatesSettle ==
    /\ [](\A k \in Keys : gate[k] = "done" => store[k].status \in {"active", "rejected"})
    /\ \A k \in Keys :
          (store[k].status = "pending") ~> (store[k].status \in {"active", "rejected"})

\* one gate run ended by activation, another in the catch block of runGates
C39_ActivatedAndCaught ==
    \E k1, k2 \in Keys :
        /\ gate[k1] = "done" /\ store[k1].status = "active"
        /\ gate[k2] = "done" /\ store[k2].status = "rejected"
        /\ store[k2].reason = "gates error"

\* C40: the gates of a key start once, from a new pending entry whose tax
\* series holds no sample; a gate run never starts again; tax samples come
\* from swap handlers that found their market active, after its activation.
C40_GatesOnceThenSamples ==
    /\ [][\A k \in Keys :
            /\ (gate'[k] = "liq" /\ gate[k] # "liq") =>
                  /\ gate[k] = "idle" /\ store[k].status = "absent"
                  /\ store'[k].status = "pending"
                  /\ k \notin sampledKeys
            /\ gate[k] # "idle" => gate'[k] # "idle"]_vars
    /\ [][(call'.fn = "samples" /\ call' # call) =>
            \A k \in call'.keys \ sampledKeys :
                /\ gate[k] \in {"notify", "done"}
                /\ \E i \in 1..Len(handlers) :
                      handlers[i].key = k /\ handlers[i].st = "active"]_vars
    /\ [](taxes \subseteq {"active"})

\* a market whose gate run is over and whose tax series holds a sample, the
\* activation notice having failed after the swap was delivered
C40_SampledThenRejected ==
    \E k \in sampledKeys :
        /\ gate[k] = "done"
        /\ store[k].status = "rejected"

\* C12: a market is active only if its pair/pool address, its token0 and its
\* token1 all hold contract code.
C12_ActiveOnlyWithCode ==
    \A k \in Keys : store[k].status = "active" => PoolOf(k).code = AllCode

\* C10: a candidate first seen while the table is full is stored as pending,
\* its gate run is started, and the subscription table is not touched.
C10_FullTableStillRegisters ==
    [][\A k \in Keys :
          (/\ store[k].status = "absent"
           /\ store'[k].status # "absent"
           /\ Cardinality(subscriptions) >= MAX_ACTIVE_MARKETS)
          => (/\ store'[k].status = "pending"
              /\ gate'[k] = "liq"
              /\ subscriptions' = subscriptions)]_vars

C10_PendingWithoutSlot ==
    \E k \in Keys :
        /\ store[k].status = "pending" /\ gate[k] = "liq"
        /\ k \notin subscriptions
        /\ Cardinality(subscriptions) = MAX_ACTIVE_MARKETS

====
